---- MODULE Spec2Model ----
(***************************************************************************)
(* aegyo: the quiz session state machine of app::run (src/src/app.cpp) and *)
(* the question/option sampling of modules::vocabulary::Vocabulary         *)
(* (src/src/modules/vocabulary.cpp).                                       *)
(*                                                                         *)
(* std::string values are sequences of UTF-8 bytes, sf::String values are  *)
(* sequences of Unicode code points.  A std::optional is a record with a   *)
(* has_value field.  The pseudo-random source (std::mt19937 seeded from    *)
(* std::random_device) is an input: every draw is a nondeterministic       *)
(* choice, and the outcome of std::shuffle is a permutation handed to the  *)
(* operator that models the caller.                                        *)
(*                                                                         *)
(* Spec      : the event loop of app::run, one action per event type.      *)
(* VocabSpec : calls of the two Vocabulary member functions on inputs      *)
(*             drawn in Init (every mask, every entry, every index).       *)
(***************************************************************************)
EXTENDS Integers, Sequences, FiniteSets

VARIABLES
    run_status,          \* "running" | "returned" | "threw" : how app::run stands
    toggle_states,       \* app.cpp:88   category -> enabled
    current_game_state,  \* app.cpp:197
    correct_entry,       \* app.cpp:200
    correct_index,       \* app.cpp:201
    is_hangul,           \* app.cpp:202
    total_questions,     \* app.cpp:203
    correct_answers,     \* app.cpp:204
    question_text,       \* app.cpp:113  string shown in the question circle
    answer_texts,        \* app.cpp:133  strings shown in the four answer circles
    memo_text,           \* app.cpp:119
    button_colors,       \* app.cpp:132  fill colour of the four answer circles
    options,             \* app.cpp:238  the vector the last question was built from
    call                 \* VocabSpec: the member-function call under test

vars == <<run_status, toggle_states, current_game_state, correct_entry, correct_index,
          is_hangul, total_questions, correct_answers, question_text, answer_texts,
          memo_text, button_colors, options, call>>

appvars == <<run_status, toggle_states, current_game_state, correct_entry, correct_index,
             is_hangul, total_questions, correct_answers, question_text, answer_texts,
             memo_text, button_colors, options>>

(***************************************************************************)
(* Bounds of the model.                                                    *)
(***************************************************************************)
\* Spec: the outcomes of the random source explored per question generation
\* (the seeds 0..MaxSeeds-1 of Draws).
MaxSeeds == 8
\* Spec: answers are recorded while total_questions < MaxAnswered.
MaxAnswered == 2
\* VocabSpec: the largest num_options a call is made with.
MaxNumOptions == 6
\* The longest sequence of calls made on a Percentage widget.
MaxCalls == 6

(***************************************************************************)
(* Vocabulary data (Vocabulary::Vocabulary, vocabulary.cpp:19-75).         *)
(***************************************************************************)
Categories == {"BasicVowel", "BasicConsonant", "DoubleConsonant", "CompoundVowel"}

\* Mutant: a vocabulary that lists only three entries of each category.
entries_three_per_category ==
  <<
    \* U+314F  "a"
    [hangul |-> <<227, 133, 143>>, latin |-> <<97>>,
     memo |-> <<76, 111, 111, 107, 115, 32, 108, 105, 107, 101, 32, 97, 110, 32, 39, 97, 39, 32, 119, 105, 116, 104, 111, 117, 116, 32, 116, 104, 101, 32, 99, 114, 111, 115, 115, 98, 97, 114>>,
     category |-> "BasicVowel"],
    \* U+3151  "ya"
    [hangul |-> <<227, 133, 145>>, latin |-> <<121, 97>>,
     memo |-> <<73, 116, 39, 115, 32, 39, 227, 133, 143, 39, 32, 119, 105, 116, 104, 32, 97, 110, 32, 101, 120, 116, 114, 97, 32, 108, 105, 110, 101, 32, 40, 97, 100, 100, 115, 32, 39, 121, 39, 41>>,
     category |-> "BasicVowel"],
    \* U+3153  "eo"
    [hangul |-> <<227, 133, 147>>, latin |-> <<101, 111>>,
     memo |-> <<84, 104, 105, 110, 107, 32, 111, 102, 32, 39, 101, 111, 39, 32, 97, 115, 32, 39, 117, 104, 39, 32, 115, 111, 117, 110, 100>>,
     category |-> "BasicVowel"],
    \* U+3131  "g/k"
    [hangul |-> <<227, 132, 177>>, latin |-> <<103, 47, 107>>,
     memo |-> <<76, 111, 111, 107, 115, 32, 108, 105, 107, 101, 32, 97, 32, 39, 103, 117, 110, 39>>,
     category |-> "BasicConsonant"],
    \* U+3134  "n"
    [hangul |-> <<227, 132, 180>>, latin |-> <<110>>,
     memo |-> <<78, 105, 107, 101, 32, 115, 119, 111, 111, 115, 104, 32, 111, 114, 32, 39, 110, 39, 32, 114, 111, 116, 97, 116, 101, 100>>,
     category |-> "BasicConsonant"],
    \* U+3137  "d/t"
    [hangul |-> <<227, 132, 183>>, latin |-> <<100, 47, 116>>,
     memo |-> <<68, 111, 111, 114, 32, 102, 114, 97, 109, 101, 32, 115, 104, 97, 112, 101>>,
     category |-> "BasicConsonant"],
    \* U+3132  "kk"
    [hangul |-> <<227, 132, 178>>, latin |-> <<107, 107>>,
     memo |-> <<68, 111, 117, 98, 108, 101, 32, 39, 227, 132, 177, 39>>,
     category |-> "DoubleConsonant"],
    \* U+3138  "tt"
    [hangul |-> <<227, 132, 184>>, latin |-> <<116, 116>>,
     memo |-> <<68, 111, 117, 98, 108, 101, 32, 39, 227, 132, 183, 39>>,
     category |-> "DoubleConsonant"],
    \* U+3143  "pp"
    [hangul |-> <<227, 133, 131>>, latin |-> <<112, 112>>,
     memo |-> <<68, 111, 117, 98, 108, 101, 32, 39, 227, 133, 130, 39>>,
     category |-> "DoubleConsonant"],
    \* U+3152  "yae"
    [hangul |-> <<227, 133, 146>>, latin |-> <<121, 97, 101>>,
     memo |-> <<67, 111, 109, 98, 105, 110, 97, 116, 105, 111, 110, 32, 111, 102, 32, 39, 227, 133, 145, 39, 32, 97, 110, 100, 32, 39, 227, 133, 163, 39>>,
     category |-> "CompoundVowel"],
    \* U+3156  "ye"
    [hangul |-> <<227, 133, 150>>, latin |-> <<121, 101>>,
     memo |-> <<67, 111, 109, 98, 105, 110, 97, 116, 105, 111, 110, 32, 111, 102, 32, 39, 227, 133, 149, 39, 32, 97, 110, 100, 32, 39, 227, 133, 163, 39>>,
     category |-> "CompoundVowel"],
    \* U+3158  "wa"
    [hangul |-> <<227, 133, 152>>, latin |-> <<119, 97>>,
     memo |-> <<39, 227, 133, 151, 39, 32, 112, 108, 117, 115, 32, 39, 227, 133, 143, 39>>,
     category |-> "CompoundVowel"]
  >>

\* Mutant: a vocabulary in which two entries have the same latin ("ae").
entries_repeated_latin ==
  <<
    \* U+314F  "a"
    [hangul |-> <<227, 133, 143>>, latin |-> <<97>>,
     memo |-> <<76, 111, 111, 107, 115, 32, 108, 105, 107, 101, 32, 97, 110, 32, 39, 97, 39, 32, 119, 105, 116, 104, 111, 117, 116, 32, 116, 104, 101, 32, 99, 114, 111, 115, 115, 98, 97, 114>>,
     category |-> "BasicVowel"],
    \* U+3151  "ya"
    [hangul |-> <<227, 133, 145>>, latin |-> <<121, 97>>,
     memo |-> <<73, 116, 39, 115, 32, 39, 227, 133, 143, 39, 32, 119, 105, 116, 104, 32, 97, 110, 32, 101, 120, 116, 114, 97, 32, 108, 105, 110, 101, 32, 40, 97, 100, 100, 115, 32, 39, 121, 39, 41>>,
     category |-> "BasicVowel"],
    \* U+3153  "eo"
    [hangul |-> <<227, 133, 147>>, latin |-> <<101, 111>>,
     memo |-> <<84, 104, 105, 110, 107, 32, 111, 102, 32, 39, 101, 111, 39, 32, 97, 115, 32, 39, 117, 104, 39, 32, 115, 111, 117, 110, 100>>,
     category |-> "BasicVowel"],
    \* U+3155  "yeo"
    [hangul |-> <<227, 133, 149>>, latin |-> <<121, 101, 111>>,
     memo |-> <<73, 116, 39, 115, 32, 39, 227, 133, 147, 39, 32, 119, 105, 116, 104, 32, 97, 110, 32, 101, 120, 116, 114, 97, 32, 108, 105, 110, 101, 32, 40, 97, 100, 100, 115, 32, 39, 121, 39, 41>>,
     category |-> "BasicVowel"],
    \* U+3157  "o"
    [hangul |-> <<227, 133, 151>>, latin |-> <<111>>,
     memo |-> <<76, 105, 110, 101, 32, 39, 111, 39, 118, 101, 114, 32, 116, 104, 101, 32, 98, 97, 114>>,
     category |-> "BasicVowel"],
    \* U+315B  "yo"
    [hangul |-> <<227, 133, 155>>, latin |-> <<121, 111>>,
     memo |-> <<73, 116, 39, 115, 32, 39, 227, 133, 151, 39, 32, 119, 105, 116, 104, 32, 97, 110, 32, 101, 120, 116, 114, 97, 32, 108, 105, 110, 101, 32, 40, 97, 100, 100, 115, 32, 39, 121, 39, 41>>,
     category |-> "BasicVowel"],
    \* U+315C  "u"
    [hangul |-> <<227, 133, 156>>, latin |-> <<117>>,
     memo |-> <<76, 105, 110, 101, 32, 39, 117, 39, 110, 100, 101, 114, 32, 116, 104, 101, 32, 98, 97, 114>>,
     category |-> "BasicVowel"],
    \* U+3160  "yu"
    [hangul |-> <<227, 133, 160>>, latin |-> <<121, 117>>,
     memo |-> <<73, 116, 39, 115, 32, 39, 227, 133, 156, 39, 32, 119, 105, 116, 104, 32, 97, 110, 32, 101, 120, 116, 114, 97, 32, 108, 105, 110, 101, 32, 40, 97, 100, 100, 115, 32, 39, 121, 39, 41>>,
     category |-> "BasicVowel"],
    \* U+3161  "eu"
    [hangul |-> <<227, 133, 161>>, latin |-> <<101, 117>>,
     memo |-> <<65, 32, 104, 111, 114, 105, 122, 111, 110, 116, 97, 108, 32, 108, 105, 110, 101, 44, 32, 115, 111, 117, 110, 100, 115, 32, 108, 105, 107, 101, 32, 39, 111, 111, 39, 32, 105, 110, 32, 39, 103, 111, 111, 100, 39>>,
     category |-> "BasicVowel"],
    \* U+3163  "i"
    [hangul |-> <<227, 133, 163>>, latin |-> <<105>>,
     memo |-> <<76, 111, 111, 107, 115, 32, 108, 105, 107, 101, 32, 116, 104, 101, 32, 108, 101, 116, 116, 101, 114, 32, 39, 105, 39>>,
     category |-> "BasicVowel"],
    \* U+3150  "ae"
    [hangul |-> <<227, 133, 144>>, latin |-> <<97, 101>>,
     memo |-> <<39, 227, 133, 143, 39, 32, 112, 108, 117, 115, 32, 97, 110, 32, 101, 120, 116, 114, 97, 32, 108, 105, 110, 101>>,
     category |-> "BasicVowel"],
    \* U+3154  "ae"
    [hangul |-> <<227, 133, 148>>, latin |-> <<97, 101>>,
     memo |-> <<39, 227, 133, 147, 39, 32, 112, 108, 117, 115, 32, 97, 110, 32, 101, 120, 116, 114, 97, 32, 108, 105, 110, 101>>,
     category |-> "BasicVowel"],
    \* U+3131  "g/k"
    [hangul |-> <<227, 132, 177>>, latin |-> <<103, 47, 107>>,
     memo |-> <<76, 111, 111, 107, 115, 32, 108, 105, 107, 101, 32, 97, 32, 39, 103, 117, 110, 39>>,
     category |-> "BasicConsonant"],
    \* U+3134  "n"
    [hangul |-> <<227, 132, 180>>, latin |-> <<110>>,
     memo |-> <<78, 105, 107, 101, 32, 115, 119, 111, 111, 115, 104, 32, 111, 114, 32, 39, 110, 39, 32, 114, 111, 116, 97, 116, 101, 100>>,
     category |-> "BasicConsonant"],
    \* U+3137  "d/t"
    [hangul |-> <<227, 132, 183>>, latin |-> <<100, 47, 116>>,
     memo |-> <<68, 111, 111, 114, 32, 102, 114, 97, 109, 101, 32, 115, 104, 97, 112, 101>>,
     category |-> "BasicConsonant"],
    \* U+3139  "r/l"
    [hangul |-> <<227, 132, 185>>, latin |-> <<114, 47, 108>>,
     memo |-> <<82, 101, 115, 101, 109, 98, 108, 101, 115, 32, 39, 114, 39, 32, 97, 110, 100, 32, 39, 108, 39, 32, 99, 111, 109, 98, 105, 110, 101, 100>>,
     category |-> "BasicConsonant"],
    \* U+3141  "m"
    [hangul |-> <<227, 133, 129>>, latin |-> <<109>>,
     memo |-> <<76, 111, 111, 107, 115, 32, 108, 105, 107, 101, 32, 97, 32, 109, 111, 117, 116, 104>>,
     category |-> "BasicConsonant"],
    \* U+3142  "b/p"
    [hangul |-> <<227, 133, 130>>, latin |-> <<98, 47, 112>>,
     memo |-> <<66, 117, 99, 107, 101, 116, 32, 115, 104, 97, 112, 101>>,
     category |-> "BasicConsonant"],
    \* U+3145  "s"
    [hangul |-> <<227, 133, 133>>, latin |-> <<115>>,
     memo |-> <<76, 111, 111, 107, 115, 32, 108, 105, 107, 101, 32, 97, 32, 109, 111, 117, 110, 116, 97, 105, 110>>,
     category |-> "BasicConsonant"],
    \* U+3147  "-/ng"
    [hangul |-> <<227, 133, 135>>, latin |-> <<45, 47, 110, 103>>,
     memo |-> <<67, 105, 114, 99, 108, 101, 32, 108, 105, 107, 101, 32, 39, 122, 101, 114, 111, 39, 32, 115, 111, 117, 110, 100>>,
     category |-> "BasicConsonant"],
    \* U+3148  "j"
    [hangul |-> <<227, 133, 136>>, latin |-> <<106>>,
     memo |-> <<76, 111, 111, 107, 115, 32, 108, 105, 107, 101, 32, 39, 227, 133, 133, 39, 32, 119, 105, 116, 104, 32, 97, 32, 108, 105, 110, 101>>,
     category |-> "BasicConsonant"],
    \* U+314A  "ch"
    [hangul |-> <<227, 133, 138>>, latin |-> <<99, 104>>,
     memo |-> <<73, 116, 39, 115, 32, 39, 227, 133, 136, 39, 32, 119, 105, 116, 104, 32, 97, 110, 32, 101, 120, 116, 114, 97, 32, 108, 105, 110, 101, 32, 111, 110, 32, 116, 111, 112>>,
     category |-> "BasicConsonant"],
    \* U+314B  "k"
    [hangul |-> <<227, 133, 139>>, latin |-> <<107>>,
     memo |-> <<76, 111, 111, 107, 115, 32, 108, 105, 107, 101, 32, 97, 32, 39, 107, 101, 121, 39>>,
     category |-> "BasicConsonant"],
    \* U+314C  "t"
    [hangul |-> <<227, 133, 140>>, latin |-> <<116>>,
     memo |-> <<76, 111, 111, 107, 115, 32, 108, 105, 107, 101, 32, 97, 32, 39, 116, 39, 32, 119, 105, 116, 104, 32, 97, 32, 104, 97, 116>>,
     category |-> "BasicConsonant"],
    \* U+314D  "p"
    [hangul |-> <<227, 133, 141>>, latin |-> <<112>>,
     memo |-> <<76, 111, 111, 107, 115, 32, 108, 105, 107, 101, 32, 97, 32, 39, 112, 105, 39, 32, 115, 121, 109, 98, 111, 108>>,
     category |-> "BasicConsonant"],
    \* U+314E  "h"
    [hangul |-> <<227, 133, 142>>, latin |-> <<104>>,
     memo |-> <<77, 97, 110, 32, 119, 105, 116, 104, 32, 97, 32, 104, 97, 116, 32, 111, 110>>,
     category |-> "BasicConsonant"],
    \* U+3132  "kk"
    [hangul |-> <<227, 132, 178>>, latin |-> <<107, 107>>,
     memo |-> <<68, 111, 117, 98, 108, 101, 32, 39, 227, 132, 177, 39>>,
     category |-> "DoubleConsonant"],
    \* U+3138  "tt"
    [hangul |-> <<227, 132, 184>>, latin |-> <<116, 116>>,
     memo |-> <<68, 111, 117, 98, 108, 101, 32, 39, 227, 132, 183, 39>>,
     category |-> "DoubleConsonant"],
    \* U+3143  "pp"
    [hangul |-> <<227, 133, 131>>, latin |-> <<112, 112>>,
     memo |-> <<68, 111, 117, 98, 108, 101, 32, 39, 227, 133, 130, 39>>,
     category |-> "DoubleConsonant"],
    \* U+3146  "ss"
    [hangul |-> <<227, 133, 134>>, latin |-> <<115, 115>>,
     memo |-> <<68, 111, 117, 98, 108, 101, 32, 39, 227, 133, 133, 39>>,
     category |-> "DoubleConsonant"],
    \* U+3149  "jj"
    [hangul |-> <<227, 133, 137>>, latin |-> <<106, 106>>,
     memo |-> <<68, 111, 117, 98, 108, 101, 32, 39, 227, 133, 136, 39>>,
     category |-> "DoubleConsonant"],
    \* U+3152  "yae"
    [hangul |-> <<227, 133, 146>>, latin |-> <<121, 97, 101>>,
     memo |-> <<67, 111, 109, 98, 105, 110, 97, 116, 105, 111, 110, 32, 111, 102, 32, 39, 227, 133, 145, 39, 32, 97, 110, 100, 32, 39, 227, 133, 163, 39>>,
     category |-> "CompoundVowel"],
    \* U+3156  "ye"
    [hangul |-> <<227, 133, 150>>, latin |-> <<121, 101>>,
     memo |-> <<67, 111, 109, 98, 105, 110, 97, 116, 105, 111, 110, 32, 111, 102, 32, 39, 227, 133, 149, 39, 32, 97, 110, 100, 32, 39, 227, 133, 163, 39>>,
     category |-> "CompoundVowel"],
    \* U+3158  "wa"
    [hangul |-> <<227, 133, 152>>, latin |-> <<119, 97>>,
     memo |-> <<39, 227, 133, 151, 39, 32, 112, 108, 117, 115, 32, 39, 227, 133, 143, 39>>,
     category |-> "CompoundVowel"],
    \* U+3159  "wae"
    [hangul |-> <<227, 133, 153>>, latin |-> <<119, 97, 101>>,
     memo |-> <<39, 227, 133, 151, 39, 32, 112, 108, 117, 115, 32, 39, 227, 133, 144, 39>>,
     category |-> "CompoundVowel"],
    \* U+315A  "oe"
    [hangul |-> <<227, 133, 154>>, latin |-> <<111, 101>>,
     memo |-> <<39, 227, 133, 151, 39, 32, 112, 108, 117, 115, 32, 39, 227, 133, 163, 39>>,
     category |-> "CompoundVowel"],
    \* U+315D  "wo"
    [hangul |-> <<227, 133, 157>>, latin |-> <<119, 111>>,
     memo |-> <<39, 227, 133, 156, 39, 32, 112, 108, 117, 115, 32, 39, 227, 133, 147, 39>>,
     category |-> "CompoundVowel"],
    \* U+315E  "we"
    [hangul |-> <<227, 133, 158>>, latin |-> <<119, 101>>,
     memo |-> <<39, 227, 133, 156, 39, 32, 112, 108, 117, 115, 32, 39, 227, 133, 148, 39>>,
     category |-> "CompoundVowel"],
    \* U+315F  "wi"
    [hangul |-> <<227, 133, 159>>, latin |-> <<119, 105>>,
     memo |-> <<39, 227, 133, 156, 39, 32, 112, 108, 117, 115, 32, 39, 227, 133, 163, 39>>,
     category |-> "CompoundVowel"],
    \* U+3162  "ui"
    [hangul |-> <<227, 133, 162>>, latin |-> <<117, 105>>,
     memo |-> <<39, 227, 133, 161, 39, 32, 112, 108, 117, 115, 32, 39, 227, 133, 163, 39>>,
     category |-> "CompoundVowel"]
  >>

\* Mutant: a vocabulary in which one hangul is listed twice.
entries_repeated_hangul ==
  <<
    \* U+314F  "a"
    [hangul |-> <<227, 133, 143>>, latin |-> <<97>>,
     memo |-> <<76, 111, 111, 107, 115, 32, 108, 105, 107, 101, 32, 97, 110, 32, 39, 97, 39, 32, 119, 105, 116, 104, 111, 117, 116, 32, 116, 104, 101, 32, 99, 114, 111, 115, 115, 98, 97, 114>>,
     category |-> "BasicVowel"],
    \* U+3151  "ya"
    [hangul |-> <<227, 133, 145>>, latin |-> <<121, 97>>,
     memo |-> <<73, 116, 39, 115, 32, 39, 227, 133, 143, 39, 32, 119, 105, 116, 104, 32, 97, 110, 32, 101, 120, 116, 114, 97, 32, 108, 105, 110, 101, 32, 40, 97, 100, 100, 115, 32, 39, 121, 39, 41>>,
     category |-> "BasicVowel"],
    \* U+3153  "eo"
    [hangul |-> <<227, 133, 147>>, latin |-> <<101, 111>>,
     memo |-> <<84, 104, 105, 110, 107, 32, 111, 102, 32, 39, 101, 111, 39, 32, 97, 115, 32, 39, 117, 104, 39, 32, 115, 111, 117, 110, 100>>,
     category |-> "BasicVowel"],
    \* U+3155  "yeo"
    [hangul |-> <<227, 133, 149>>, latin |-> <<121, 101, 111>>,
     memo |-> <<73, 116, 39, 115, 32, 39, 227, 133, 147, 39, 32, 119, 105, 116, 104, 32, 97, 110, 32, 101, 120, 116, 114, 97, 32, 108, 105, 110, 101, 32, 40, 97, 100, 100, 115, 32, 39, 121, 39, 41>>,
     category |-> "BasicVowel"],
    \* U+3131  "g/k"
    [hangul |-> <<227, 132, 177>>, latin |-> <<103, 47, 107>>,
     memo |-> <<76, 111, 111, 107, 115, 32, 108, 105, 107, 101, 32, 97, 32, 39, 103, 117, 110, 39>>,
     category |-> "BasicConsonant"],
    \* U+3134  "n"
    [hangul |-> <<227, 132, 180>>, latin |-> <<110>>,
     memo |-> <<78, 105, 107, 101, 32, 115, 119, 111, 111, 115, 104, 32, 111, 114, 32, 39, 110, 39, 32, 114, 111, 116, 97, 116, 101, 100>>,
     category |-> "BasicConsonant"],
    \* U+3137  "d/t"
    [hangul |-> <<227, 132, 183>>, latin |-> <<100, 47, 116>>,
     memo |-> <<68, 111, 111, 114, 32, 102, 114, 97, 109, 101, 32, 115, 104, 97, 112, 101>>,
     category |-> "BasicConsonant"],
    \* U+3139  "r/l"
    [hangul |-> <<227, 132, 185>>, latin |-> <<114, 47, 108>>,
     memo |-> <<82, 101, 115, 101, 109, 98, 108, 101, 115, 32, 39, 114, 39, 32, 97, 110, 100, 32, 39, 108, 39, 32, 99, 111, 109, 98, 105, 110, 101, 100>>,
     category |-> "BasicConsonant"],
    \* U+3132  "kk"
    [hangul |-> <<227, 132, 178>>, latin |-> <<107, 107>>,
     memo |-> <<68, 111, 117, 98, 108, 101, 32, 39, 227, 132, 177, 39>>,
     category |-> "DoubleConsonant"],
    \* U+3138  "tt"
    [hangul |-> <<227, 132, 184>>, latin |-> <<116, 116>>,
     memo |-> <<68, 111, 117, 98, 108, 101, 32, 39, 227, 132, 183, 39>>,
     category |-> "DoubleConsonant"],
    \* U+3143  "pp"
    [hangul |-> <<227, 133, 131>>, latin |-> <<112, 112>>,
     memo |-> <<68, 111, 117, 98, 108, 101, 32, 39, 227, 133, 130, 39>>,
     category |-> "DoubleConsonant"],
    \* U+3146  "ss"
    [hangul |-> <<227, 133, 134>>, latin |-> <<115, 115>>,
     memo |-> <<68, 111, 117, 98, 108, 101, 32, 39, 227, 133, 133, 39>>,
     category |-> "DoubleConsonant"],
    \* U+3152  "yae"
    [hangul |-> <<227, 133, 146>>, latin |-> <<121, 97, 101>>,
     memo |-> <<67, 111, 109, 98, 105, 110, 97, 116, 105, 111, 110, 32, 111, 102, 32, 39, 227, 133, 145, 39, 32, 97, 110, 100, 32, 39, 227, 133, 163, 39>>,
     category |-> "CompoundVowel"],
    \* U+3156  "ye"
    [hangul |-> <<227, 133, 150>>, latin |-> <<121, 101>>,
     memo |-> <<67, 111, 109, 98, 105, 110, 97, 116, 105, 111, 110, 32, 111, 102, 32, 39, 227, 133, 149, 39, 32, 97, 110, 100, 32, 39, 227, 133, 163, 39>>,
     category |-> "CompoundVowel"],
    \* U+3158  "wa"
    [hangul |-> <<227, 133, 152>>, latin |-> <<119, 97>>,
     memo |-> <<39, 227, 133, 151, 39, 32, 112, 108, 117, 115, 32, 39, 227, 133, 143, 39>>,
     category |-> "CompoundVowel"],
    \* U+3159  "wae"
    [hangul |-> <<227, 133, 153>>, latin |-> <<119, 97, 101>>,
     memo |-> <<39, 227, 133, 151, 39, 32, 112, 108, 117, 115, 32, 39, 227, 133, 144, 39>>,
     category |-> "CompoundVowel"],
    \* U+314F  "ah"  (the hangul of the first entry, listed again)
    [hangul |-> <<227, 133, 143>>, latin |-> <<97, 104>>,
     memo |-> <<76, 111, 111, 107, 115, 32, 108, 105, 107, 101, 32, 97, 110, 32, 39, 97, 39, 32, 119, 105, 116, 104, 111, 117, 116, 32, 116, 104, 101, 32, 99, 114, 111, 115, 115, 98, 97, 114>>,
     category |-> "CompoundVowel"]
  >>

\* The table of lines 24-71, in order.
entries_ ==
  <<
    \* 1 (vocabulary.cpp:26): U+314F  "a"  "Looks like an 'a' without the crossbar"
    [hangul |-> <<227, 133, 143>>, latin |-> <<97>>,
     memo |-> <<76, 111, 111, 107, 115, 32, 108, 105, 107, 101, 32, 97, 110, 32, 39, 97, 39, 32, 119, 105, 116, 104, 111, 117, 116, 32, 116, 104, 101, 32, 99, 114, 111, 115, 115, 98, 97, 114>>,
     category |-> "BasicVowel"],
    \* 2 (vocabulary.cpp:27): U+3151  "ya"  "It's 'U+314F' with an extra line (adds 'y')"
    [hangul |-> <<227, 133, 145>>, latin |-> <<121, 97>>,
     memo |-> <<73, 116, 39, 115, 32, 39, 227, 133, 143, 39, 32, 119, 105, 116, 104, 32, 97, 110, 32, 101, 120, 116, 114, 97, 32, 108, 105, 110, 101, 32, 40, 97, 100, 100, 115, 32, 39, 121, 39, 41>>,
     category |-> "BasicVowel"],
    \* 3 (vocabulary.cpp:28): U+3153  "eo"  "Think of 'eo' as 'uh' sound"
    [hangul |-> <<227, 133, 147>>, latin |-> <<101, 111>>,
     memo |-> <<84, 104, 105, 110, 107, 32, 111, 102, 32, 39, 101, 111, 39, 32, 97, 115, 32, 39, 117, 104, 39, 32, 115, 111, 117, 110, 100>>,
     category |-> "BasicVowel"],
    \* 4 (vocabulary.cpp:29): U+3155  "yeo"  "It's 'U+3153' with an extra line (adds 'y')"
    [hangul |-> <<227, 133, 149>>, latin |-> <<121, 101, 111>>,
     memo |-> <<73, 116, 39, 115, 32, 39, 227, 133, 147, 39, 32, 119, 105, 116, 104, 32, 97, 110, 32, 101, 120, 116, 114, 97, 32, 108, 105, 110, 101, 32, 40, 97, 100, 100, 115, 32, 39, 121, 39, 41>>,
     category |-> "BasicVowel"],
    \* 5 (vocabulary.cpp:30): U+3157  "o"  "Line 'o'ver the bar"
    [hangul |-> <<227, 133, 151>>, latin |-> <<111>>,
     memo |-> <<76, 105, 110, 101, 32, 39, 111, 39, 118, 101, 114, 32, 116, 104, 101, 32, 98, 97, 114>>,
     category |-> "BasicVowel"],
    \* 6 (vocabulary.cpp:31): U+315B  "yo"  "It's 'U+3157' with an extra line (adds 'y')"
    [hangul |-> <<227, 133, 155>>, latin |-> <<121, 111>>,
     memo |-> <<73, 116, 39, 115, 32, 39, 227, 133, 151, 39, 32, 119, 105, 116, 104, 32, 97, 110, 32, 101, 120, 116, 114, 97, 32, 108, 105, 110, 101, 32, 40, 97, 100, 100, 115, 32, 39, 121, 39, 41>>,
     category |-> "BasicVowel"],
    \* 7 (vocabulary.cpp:32): U+315C  "u"  "Line 'u'nder the bar"
    [hangul |-> <<227, 133, 156>>, latin |-> <<117>>,
     memo |-> <<76, 105, 110, 101, 32, 39, 117, 39, 110, 100, 101, 114, 32, 116, 104, 101, 32, 98, 97, 114>>,
     category |-> "BasicVowel"],
    \* 8 (vocabulary.cpp:33): U+3160  "yu"  "It's 'U+315C' with an extra line (adds 'y')"
    [hangul |-> <<227, 133, 160>>, latin |-> <<121, 117>>,
     memo |-> <<73, 116, 39, 115, 32, 39, 227, 133, 156, 39, 32, 119, 105, 116, 104, 32, 97, 110, 32, 101, 120, 116, 114, 97, 32, 108, 105, 110, 101, 32, 40, 97, 100, 100, 115, 32, 39, 121, 39, 41>>,
     category |-> "BasicVowel"],
    \* 9 (vocabulary.cpp:34): U+3161  "eu"  "A horizontal line, sounds like 'oo' in 'good'"
    [hangul |-> <<227, 133, 161>>, latin |-> <<101, 117>>,
     memo |-> <<65, 32, 104, 111, 114, 105, 122, 111, 110, 116, 97, 108, 32, 108, 105, 110, 101, 44, 32, 115, 111, 117, 110, 100, 115, 32, 108, 105, 107, 101, 32, 39, 111, 111, 39, 32, 105, 110, 32, 39, 103, 111, 111, 100, 39>>,
     category |-> "BasicVowel"],
    \* 10 (vocabulary.cpp:35): U+3163  "i"  "Looks like the letter 'i'"
    [hangul |-> <<227, 133, 163>>, latin |-> <<105>>,
     memo |-> <<76, 111, 111, 107, 115, 32, 108, 105, 107, 101, 32, 116, 104, 101, 32, 108, 101, 116, 116, 101, 114, 32, 39, 105, 39>>,
     category |-> "BasicVowel"],
    \* 11 (vocabulary.cpp:36): U+3150  "ae"  "'U+314F' plus an extra line"
    [hangul |-> <<227, 133, 144>>, latin |-> <<97, 101>>,
     memo |-> <<39, 227, 133, 143, 39, 32, 112, 108, 117, 115, 32, 97, 110, 32, 101, 120, 116, 114, 97, 32, 108, 105, 110, 101>>,
     category |-> "BasicVowel"],
    \* 12 (vocabulary.cpp:37): U+3154  "e"  "'U+3153' plus an extra line"
    [hangul |-> <<227, 133, 148>>, latin |-> <<101>>,
     memo |-> <<39, 227, 133, 147, 39, 32, 112, 108, 117, 115, 32, 97, 110, 32, 101, 120, 116, 114, 97, 32, 108, 105, 110, 101>>,
     category |-> "BasicVowel"],
    \* 13 (vocabulary.cpp:40): U+3131  "g/k"  "Looks like a 'gun'"
    [hangul |-> <<227, 132, 177>>, latin |-> <<103, 47, 107>>,
     memo |-> <<76, 111, 111, 107, 115, 32, 108, 105, 107, 101, 32, 97, 32, 39, 103, 117, 110, 39>>,
     category |-> "BasicConsonant"],
    \* 14 (vocabulary.cpp:41): U+3134  "n"  "Nike swoosh or 'n' rotated"
    [hangul |-> <<227, 132, 180>>, latin |-> <<110>>,
     memo |-> <<78, 105, 107, 101, 32, 115, 119, 111, 111, 115, 104, 32, 111, 114, 32, 39, 110, 39, 32, 114, 111, 116, 97, 116, 101, 100>>,
     category |-> "BasicConsonant"],
    \* 15 (vocabulary.cpp:42): U+3137  "d/t"  "Door frame shape"
    [hangul |-> <<227, 132, 183>>, latin |-> <<100, 47, 116>>,
     memo |-> <<68, 111, 111, 114, 32, 102, 114, 97, 109, 101, 32, 115, 104, 97, 112, 101>>,
     category |-> "BasicConsonant"],
    \* 16 (vocabulary.cpp:43): U+3139  "r/l"  "Resembles 'r' and 'l' combined"
    [hangul |-> <<227, 132, 185>>, latin |-> <<114, 47, 108>>,
     memo |-> <<82, 101, 115, 101, 109, 98, 108, 101, 115, 32, 39, 114, 39, 32, 97, 110, 100, 32, 39, 108, 39, 32, 99, 111, 109, 98, 105, 110, 101, 100>>,
     category |-> "BasicConsonant"],
    \* 17 (vocabulary.cpp:44): U+3141  "m"  "Looks like a mouth"
    [hangul |-> <<227, 133, 129>>, latin |-> <<109>>,
     memo |-> <<76, 111, 111, 107, 115, 32, 108, 105, 107, 101, 32, 97, 32, 109, 111, 117, 116, 104>>,
     category |-> "BasicConsonant"],
    \* 18 (vocabulary.cpp:45): U+3142  "b/p"  "Bucket shape"
    [hangul |-> <<227, 133, 130>>, latin |-> <<98, 47, 112>>,
     memo |-> <<66, 117, 99, 107, 101, 116, 32, 115, 104, 97, 112, 101>>,
     category |-> "BasicConsonant"],
    \* 19 (vocabulary.cpp:46): U+3145  "s"  "Looks like a mountain"
    [hangul |-> <<227, 133, 133>>, latin |-> <<115>>,
     memo |-> <<76, 111, 111, 107, 115, 32, 108, 105, 107, 101, 32, 97, 32, 109, 111, 117, 110, 116, 97, 105, 110>>,
     category |-> "BasicConsonant"],
    \* 20 (vocabulary.cpp:47): U+3147  "-/ng"  "Circle like 'zero' sound"
    [hangul |-> <<227, 133, 135>>, latin |-> <<45, 47, 110, 103>>,
     memo |-> <<67, 105, 114, 99, 108, 101, 32, 108, 105, 107, 101, 32, 39, 122, 101, 114, 111, 39, 32, 115, 111, 117, 110, 100>>,
     category |-> "BasicConsonant"],
    \* 21 (vocabulary.cpp:48): U+3148  "j"  "Looks like 'U+3145' with a line"
    [hangul |-> <<227, 133, 136>>, latin |-> <<106>>,
     memo |-> <<76, 111, 111, 107, 115, 32, 108, 105, 107, 101, 32, 39, 227, 133, 133, 39, 32, 119, 105, 116, 104, 32, 97, 32, 108, 105, 110, 101>>,
     category |-> "BasicConsonant"],
    \* 22 (vocabulary.cpp:49): U+314A  "ch"  "It's 'U+3148' with an extra line on top"
    [hangul |-> <<227, 133, 138>>, latin |-> <<99, 104>>,
     memo |-> <<73, 116, 39, 115, 32, 39, 227, 133, 136, 39, 32, 119, 105, 116, 104, 32, 97, 110, 32, 101, 120, 116, 114, 97, 32, 108, 105, 110, 101, 32, 111, 110, 32, 116, 111, 112>>,
     category |-> "BasicConsonant"],
    \* 23 (vocabulary.cpp:50): U+314B  "k"  "Looks like a 'key'"
    [hangul |-> <<227, 133, 139>>, latin |-> <<107>>,
     memo |-> <<76, 111, 111, 107, 115, 32, 108, 105, 107, 101, 32, 97, 32, 39, 107, 101, 121, 39>>,
     category |-> "BasicConsonant"],
    \* 24 (vocabulary.cpp:51): U+314C  "t"  "Looks like a 't' with a hat"
    [hangul |-> <<227, 133, 140>>, latin |-> <<116>>,
     memo |-> <<76, 111, 111, 107, 115, 32, 108, 105, 107, 101, 32, 97, 32, 39, 116, 39, 32, 119, 105, 116, 104, 32, 97, 32, 104, 97, 116>>,
     category |-> "BasicConsonant"],
    \* 25 (vocabulary.cpp:52): U+314D  "p"  "Looks like a 'pi' symbol"
    [hangul |-> <<227, 133, 141>>, latin |-> <<112>>,
     memo |-> <<76, 111, 111, 107, 115, 32, 108, 105, 107, 101, 32, 97, 32, 39, 112, 105, 39, 32, 115, 121, 109, 98, 111, 108>>,
     category |-> "BasicConsonant"],
    \* 26 (vocabulary.cpp:53): U+314E  "h"  "Man with a hat on"
    [hangul |-> <<227, 133, 142>>, latin |-> <<104>>,
     memo |-> <<77, 97, 110, 32, 119, 105, 116, 104, 32, 97, 32, 104, 97, 116, 32, 111, 110>>,
     category |-> "BasicConsonant"],
    \* 27 (vocabulary.cpp:56): U+3132  "kk"  "Double 'U+3131'"
    [hangul |-> <<227, 132, 178>>, latin |-> <<107, 107>>,
     memo |-> <<68, 111, 117, 98, 108, 101, 32, 39, 227, 132, 177, 39>>,
     category |-> "DoubleConsonant"],
    \* 28 (vocabulary.cpp:57): U+3138  "tt"  "Double 'U+3137'"
    [hangul |-> <<227, 132, 184>>, latin |-> <<116, 116>>,
     memo |-> <<68, 111, 117, 98, 108, 101, 32, 39, 227, 132, 183, 39>>,
     category |-> "DoubleConsonant"],
    \* 29 (vocabulary.cpp:58): U+3143  "pp"  "Double 'U+3142'"
    [hangul |-> <<227, 133, 131>>, latin |-> <<112, 112>>,
     memo |-> <<68, 111, 117, 98, 108, 101, 32, 39, 227, 133, 130, 39>>,
     category |-> "DoubleConsonant"],
    \* 30 (vocabulary.cpp:59): U+3146  "ss"  "Double 'U+3145'"
    [hangul |-> <<227, 133, 134>>, latin |-> <<115, 115>>,
     memo |-> <<68, 111, 117, 98, 108, 101, 32, 39, 227, 133, 133, 39>>,
     category |-> "DoubleConsonant"],
    \* 31 (vocabulary.cpp:60): U+3149  "jj"  "Double 'U+3148'"
    [hangul |-> <<227, 133, 137>>, latin |-> <<106, 106>>,
     memo |-> <<68, 111, 117, 98, 108, 101, 32, 39, 227, 133, 136, 39>>,
     category |-> "DoubleConsonant"],
    \* 32 (vocabulary.cpp:63): U+3152  "yae"  "Combination of 'U+3151' and 'U+3163'"
    [hangul |-> <<227, 133, 146>>, latin |-> <<121, 97, 101>>,
     memo |-> <<67, 111, 109, 98, 105, 110, 97, 116, 105, 111, 110, 32, 111, 102, 32, 39, 227, 133, 145, 39, 32, 97, 110, 100, 32, 39, 227, 133, 163, 39>>,
     category |-> "CompoundVowel"],
    \* 33 (vocabulary.cpp:64): U+3156  "ye"  "Combination of 'U+3155' and 'U+3163'"
    [hangul |-> <<227, 133, 150>>, latin |-> <<121, 101>>,
     memo |-> <<67, 111, 109, 98, 105, 110, 97, 116, 105, 111, 110, 32, 111, 102, 32, 39, 227, 133, 149, 39, 32, 97, 110, 100, 32, 39, 227, 133, 163, 39>>,
     category |-> "CompoundVowel"],
    \* 34 (vocabulary.cpp:65): U+3158  "wa"  "'U+3157' plus 'U+314F'"
    [hangul |-> <<227, 133, 152>>, latin |-> <<119, 97>>,
     memo |-> <<39, 227, 133, 151, 39, 32, 112, 108, 117, 115, 32, 39, 227, 133, 143, 39>>,
     category |-> "CompoundVowel"],
    \* 35 (vocabulary.cpp:66): U+3159  "wae"  "'U+3157' plus 'U+3150'"
    [hangul |-> <<227, 133, 153>>, latin |-> <<119, 97, 101>>,
     memo |-> <<39, 227, 133, 151, 39, 32, 112, 108, 117, 115, 32, 39, 227, 133, 144, 39>>,
     category |-> "CompoundVowel"],
    \* 36 (vocabulary.cpp:67): U+315A  "oe"  "'U+3157' plus 'U+3163'"
    [hangul |-> <<227, 133, 154>>, latin |-> <<111, 101>>,
     memo |-> <<39, 227, 133, 151, 39, 32, 112, 108, 117, 115, 32, 39, 227, 133, 163, 39>>,
     category |-> "CompoundVowel"],
    \* 37 (vocabulary.cpp:68): U+315D  "wo"  "'U+315C' plus 'U+3153'"
    [hangul |-> <<227, 133, 157>>, latin |-> <<119, 111>>,
     memo |-> <<39, 227, 133, 156, 39, 32, 112, 108, 117, 115, 32, 39, 227, 133, 147, 39>>,
     category |-> "CompoundVowel"],
    \* 38 (vocabulary.cpp:69): U+315E  "we"  "'U+315C' plus 'U+3154'"
    [hangul |-> <<227, 133, 158>>, latin |-> <<119, 101>>,
     memo |-> <<39, 227, 133, 156, 39, 32, 112, 108, 117, 115, 32, 39, 227, 133, 148, 39>>,
     category |-> "CompoundVowel"],
    \* 39 (vocabulary.cpp:70): U+315F  "wi"  "'U+315C' plus 'U+3163'"
    [hangul |-> <<227, 133, 159>>, latin |-> <<119, 105>>,
     memo |-> <<39, 227, 133, 156, 39, 32, 112, 108, 117, 115, 32, 39, 227, 133, 163, 39>>,
     category |-> "CompoundVowel"],
    \* 40 (vocabulary.cpp:71): U+3162  "ui"  "'U+3161' plus 'U+3163'"
    [hangul |-> <<227, 133, 162>>, latin |-> <<117, 105>>,
     memo |-> <<39, 227, 133, 161, 39, 32, 112, 108, 117, 115, 32, 39, 227, 133, 163, 39>>,
     category |-> "CompoundVowel"]
  >>

\* Number of options of a question (default argument of
\* generate_enabled_question_options; the loops of app.cpp run to 4).
num_options_default == 4

Masks == [Categories -> BOOLEAN]

nullopt == [has_value |-> FALSE]

Some(v) == [has_value |-> TRUE, value |-> v]

(***************************************************************************)
(* core::string::to_sfml_string: sf::String::fromUtf8, UTF-8 bytes to code *)
(* points (1- to 4-byte sequences).                                        *)
(***************************************************************************)
RECURSIVE Utf8Decode(_, _)
Utf8Decode(bytes, i) ==
    IF i > Len(bytes) THEN <<>>
    ELSE LET c == bytes[i] IN
         IF c < 128 THEN <<c>> \o Utf8Decode(bytes, i + 1)
         ELSE IF c < 224 THEN
             <<(c - 192) * 64 + (bytes[i + 1] - 128)>> \o Utf8Decode(bytes, i + 2)
         ELSE IF c < 240 THEN
             <<(c - 224) * 4096 + (bytes[i + 1] - 128) * 64 + (bytes[i + 2] - 128)>>
                 \o Utf8Decode(bytes, i + 3)
         ELSE
             <<(c - 240) * 262144 + (bytes[i + 1] - 128) * 4096
                 + (bytes[i + 2] - 128) * 64 + (bytes[i + 3] - 128)>>
                 \o Utf8Decode(bytes, i + 4)

to_sfml_string(utf8_str) == Utf8Decode(utf8_str, 1)

(***************************************************************************)
(* The random source.                                                      *)
(***************************************************************************)
\* get_random_number<std::size_t>(min, max): any value of [min, max].
get_random_number(min, max) == min..max

\* get_random_bool(): either value.
get_random_bool == BOOLEAN

\* An outcome of std::shuffle on n elements is a permutation of 1..n;
\* Rotation(n, r) is the one that moves element i + r to place i.
Rotation(n, r) == [i \in 1..n |-> ((i - 1 + r) % n) + 1]

\* The outcomes of std::shuffle on n elements that the model explores: the
\* n rotations.
ShuffleOutcomes(n) ==
    IF n = 0 THEN {<<>>} ELSE {Rotation(n, r) : r \in 0..(n - 1)}

\* std::shuffle(first, last, g) with outcome p: place i receives element p[i].
shuffle(s, p) == [i \in 1..Len(s) |-> s[p[i]]]

(***************************************************************************)
(* Vocabulary (vocabulary.cpp).                                            *)
(***************************************************************************)
\* The loop of get_random_enabled_entry (lines 80-85).
EnabledEntries(category_enabled) ==
    LET Enabled(entry) == category_enabled[entry.category]
    IN  SelectSeq(entries_, Enabled)

\* Mutant: the index is applied to the whole vocabulary instead of the
\* enabled entries.
get_random_enabled_entry_unfiltered(category_enabled, index) ==
    LET enabled_entries == EnabledEntries(category_enabled)
    IN  IF enabled_entries = <<>>
        THEN [entry |-> nullopt, rng_draws |-> 0]
        ELSE [entry |-> Some(entries_[index + 1]), rng_draws |-> 1]

\* Mutant: the index is drawn before the emptiness check.
get_random_enabled_entry_draws_first(category_enabled, index) ==
    LET enabled_entries == EnabledEntries(category_enabled)
    IN  IF enabled_entries = <<>>
        THEN [entry |-> nullopt, rng_draws |-> 1]
        ELSE [entry |-> Some(enabled_entries[index + 1]), rng_draws |-> 1]

\* get_random_enabled_entry; index is what get_random_number returns when it
\* is called.  rng_draws counts the calls of the random source.
get_random_enabled_entry(category_enabled, index) ==
    LET enabled_entries == EnabledEntries(category_enabled)
    IN  IF enabled_entries = <<>>
        THEN [entry |-> nullopt, rng_draws |-> 0]
        ELSE [entry |-> Some(enabled_entries[index + 1]), rng_draws |-> 1]

\* Mutant: the wrong entries are not compared with the correct entry.
WrongEntries_keeps_correct(correct, category_enabled) ==
    EnabledEntries(category_enabled)

\* Mutant: the filter does not look at the mask.
WrongEntries_any_category(correct, category_enabled) ==
    LET Wrong(entry) == entry.hangul # correct.hangul
    IN  SelectSeq(entries_, Wrong)

\* Mutant: the filter drops every entry of the correct entry's category.
WrongEntries_other_categories(correct, category_enabled) ==
    LET Wrong(entry) == category_enabled[entry.category]
                        /\ entry.category # correct.category
    IN  SelectSeq(entries_, Wrong)

\* The loop of generate_enabled_question_options (lines 104-110); correct is
\* the parameter correct_entry.
WrongEntries(correct, category_enabled) ==
    LET Wrong(entry) == category_enabled[entry.category]
                        /\ entry.hangul # correct.hangul
    IN  SelectSeq(entries_, Wrong)

\* Lines 116-121: append wrong entries until options holds num_options.
RECURSIVE AddWrongEntries(_, _, _, _)
AddWrongEntries(opts, wrong_entries, i, num_options) ==
    IF i > Len(wrong_entries) \/ Len(opts) >= num_options THEN opts
    ELSE AddWrongEntries(Append(opts, wrong_entries[i]), wrong_entries, i + 1, num_options)

\* Mutant: the length test is missing; a short list is returned as it is.
generate_enabled_question_options_returns_short(correct, category_enabled, num_options, shuffle1, shuffle2) ==
    LET wrong_entries == shuffle(WrongEntries(correct, category_enabled), shuffle1)
        opts == AddWrongEntries(<<correct>>, wrong_entries, 1, num_options)
    IN  IF Len(opts) < num_options
        THEN [threw |-> FALSE, options |-> opts]
        ELSE [threw |-> FALSE, options |-> shuffle(opts, shuffle2)]

\* generate_enabled_question_options; shuffle1 and shuffle2 are the outcomes
\* of the two std::shuffle calls.  threw: std::runtime_error was thrown.
generate_enabled_question_options(correct, category_enabled, num_options, shuffle1, shuffle2) ==
    LET wrong_entries == shuffle(WrongEntries(correct, category_enabled), shuffle1)
        opts == AddWrongEntries(<<correct>>, wrong_entries, 1, num_options)
    IN  IF Len(opts) < num_options
        THEN [threw |-> TRUE, options |-> <<>>]
        ELSE [threw |-> FALSE, options |-> shuffle(opts, shuffle2)]

(***************************************************************************)
(* Geometry of the window (app.cpp:131-189) and the events of the loop.    *)
(***************************************************************************)
\* sf::Rect::contains: left and top edges inside, right and bottom outside.
Contains(rect, point) ==
    /\ point.x >= rect.left /\ point.x < rect.left + rect.width
    /\ point.y >= rect.top  /\ point.y < rect.top + rect.height

\* button_shapes[i].getGlobalBounds(), i in 0..3: the square around a circle
\* of radius 60 centred at (250|550, 350|500).
ButtonBounds(i) ==
    LET centre == <<[x |-> 250, y |-> 350], [x |-> 550, y |-> 350],
                    [x |-> 250, y |-> 500], [x |-> 550, y |-> 500]>>[i + 1]
    IN  [left |-> centre.x - 60, top |-> centre.y - 60, width |-> 120, height |-> 120]

\* toggle_buttons[i].getGlobalBounds(), i in 0..3: a 50 x 35 rectangle at
\* (550 + 60 i, 10) in the 800 pixel wide window, grown by its outline of 1
\* (2 while hovered; every point of MousePositions lies clear of that band).
ToggleBounds(i) ==
    [left |-> (800 - 4 * 60 - 10) + i * 60 - 1, top |-> 10 - 1,
     width |-> 50 + 2, height |-> 35 + 2]

\* Positions the mouse events carry: the middle of each toggle button, the
\* middle of the first answer circle, a corner of the last answer circle's
\* bounding square (outside the circle itself), and the question circle.
MousePositions ==
    {[x |-> 575 + 60 * i, y |-> 27] : i \in 0..3}
    \cup {[x |-> 250, y |-> 350], [x |-> 495, y |-> 445], [x |-> 400, y |-> 150]}

\* The mouse button releases: the left button anywhere, the right button on
\* the first toggle button and on the first answer circle.
MouseReleases ==
    {[button |-> "Left", position |-> p] : p \in MousePositions}
    \cup {[button |-> "Right", position |-> p] :
             p \in {[x |-> 575, y |-> 27], [x |-> 250, y |-> 350]}}

Scancodes == {"Num1", "Num2", "Num3", "Num4", "Space"}

\* Mutant: the last toggle button stands for a category that is no key of
\* the mask.
toggle_categories_unknown_key(i) ==
    <<"BasicVowel", "BasicConsonant", "DoubleConsonant", "Unknown">>[i + 1]

\* toggle_categories (app.cpp:83-87), indexed from 0.
toggle_categories(i) ==
    <<"BasicVowel", "BasicConsonant", "DoubleConsonant", "CompoundVowel">>[i + 1]

\* The global bounds of the four answer buttons and of the four toggle
\* buttons, by index.
button_shapes == [i \in 0..3 |-> ButtonBounds(i)]

toggle_buttons == [i \in 0..3 |-> ToggleBounds(i)]

\* The indices in 0..3 whose bounds contain the position; the loops of
\* app.cpp act on the first one and break.
Hits(shapes, position) == {i \in 0..3 : Contains(shapes[i], position)}

First(S) == CHOOSE i \in S : \A j \in S : i <= j

(***************************************************************************)
(* The state of app::run as one record, so that the handlers compose.      *)
(***************************************************************************)
State ==
    [run_status |-> run_status, toggle_states |-> toggle_states,
     current_game_state |-> current_game_state, correct_entry |-> correct_entry,
     correct_index |-> correct_index, is_hangul |-> is_hangul,
     total_questions |-> total_questions, correct_answers |-> correct_answers,
     question_text |-> question_text, answer_texts |-> answer_texts,
     memo_text |-> memo_text, button_colors |-> button_colors, options |-> options]

\* The state s becomes the state of the program.
Becomes(state) ==
  \E s \in {state} :
    /\ run_status' = s.run_status
    /\ toggle_states' = s.toggle_states
    /\ current_game_state' = s.current_game_state
    /\ correct_entry' = s.correct_entry
    /\ correct_index' = s.correct_index
    /\ is_hangul' = s.is_hangul
    /\ total_questions' = s.total_questions
    /\ correct_answers' = s.correct_answers
    /\ question_text' = s.question_text
    /\ answer_texts' = s.answer_texts
    /\ memo_text' = s.memo_text
    /\ button_colors' = s.button_colors
    /\ options' = s.options

\* The state of the program is s.
Is(s) ==
    /\ run_status = s.run_status
    /\ toggle_states = s.toggle_states
    /\ current_game_state = s.current_game_state
    /\ correct_entry = s.correct_entry
    /\ correct_index = s.correct_index
    /\ is_hangul = s.is_hangul
    /\ total_questions = s.total_questions
    /\ correct_answers = s.correct_answers
    /\ question_text = s.question_text
    /\ answer_texts = s.answer_texts
    /\ memo_text = s.memo_text
    /\ button_colors = s.button_colors
    /\ options = s.options

(***************************************************************************)
(* Question generation: the block that app.cpp repeats at lines 217-263,   *)
(* 299-343 and 473-516.                                                    *)
(***************************************************************************)
\* What the random source contributes to one question generation under the
\* mask: the index of the entry (if one is drawn), the coin of
\* get_random_bool and the outcomes of the two shuffles.  A seed stands for
\* one such combination; seeds 0..7 give every pair of coin and rotation of
\* the options, with varying entries and rotations of the wrong entries.
DrawsOfSeed(category_enabled, seed) ==
    LET n == Len(EnabledEntries(category_enabled))
    IN  IF n = 0 THEN [drawn |-> FALSE]
        ELSE LET index == seed % n
                 correct == get_random_enabled_entry(category_enabled, index).entry.value
                 wrong == Len(WrongEntries(correct, category_enabled))
             IN  [drawn |-> TRUE,
                  index |-> index,
                  coin |-> ((seed \div num_options_default) % 2 = 1),
                  shuffle1 |-> IF wrong = 0 THEN <<>>
                               ELSE Rotation(wrong, (seed \div 2) % wrong),
                  shuffle2 |-> Rotation(num_options_default,
                                        seed % num_options_default)]

Draws(category_enabled) ==
    {DrawsOfSeed(category_enabled, seed) : seed \in 0..(MaxSeeds - 1)}

\* The calls of the block with the draws d: get_random_enabled_entry, then,
\* if it returned an entry, get_random_bool and
\* generate_enabled_question_options.
Sample(category_enabled, d) ==
    LET maybe_entry == get_random_enabled_entry(category_enabled,
                                                IF d.drawn THEN d.index ELSE 0).entry
    IN  IF ~maybe_entry.has_value
        THEN [maybe_entry |-> maybe_entry]
        ELSE [maybe_entry |-> maybe_entry,
              coin |-> d.coin,
              generated |-> generate_enabled_question_options(
                                maybe_entry.value, category_enabled,
                                num_options_default, d.shuffle1, d.shuffle2)]

\* Every result of those calls under each mask.
Samples == [m \in Masks |-> {Sample(m, d) : d \in Draws(m)}]

\* Mutant: correct_index is not updated.
FindCorrectIndex_stale(opts, entry, old_index) == old_index

\* Lines 239-244: the first index whose option has the hangul of the correct
\* entry; correct_index keeps its value when there is none.
FindCorrectIndex(opts, entry, old_index) ==
    LET found == {i \in 0..3 : opts[i + 1].hangul = entry.hangul}
    IN  IF found = {} THEN old_index ELSE First(found)

\* Mutant: the answer labels of the previous question stay on display.
show_no_entries_keeps_labels(s) ==
    [s EXCEPT !.question_text = <<88>>,
              !.current_game_state = "no_entries_enabled",
              !.button_colors = [i \in 0..3 |-> "disabled_toggle"],
              !.memo_text = <<>>,
              !.options = <<>>]

\* Lines 219-234 (300-314, 474-488): no entry is enabled.  The placeholder
\* "X" (code point 88) is shown and the labels and the memo are emptied.
show_no_entries(s) ==
    [s EXCEPT !.question_text = <<88>>,
              !.current_game_state = "no_entries_enabled",
              !.button_colors = [i \in 0..3 |-> "disabled_toggle"],
              !.answer_texts = [i \in 0..3 |-> <<>>],
              !.memo_text = <<>>,
              !.options = <<>>]

\* Mutant: the labels are taken from the same side as the prompt.
show_question_same_side(s, entry, coin, opts) ==
    [s EXCEPT
       !.options = opts,
       !.correct_index = FindCorrectIndex(opts, entry, s.correct_index),
       !.question_text = to_sfml_string(IF coin THEN entry.hangul ELSE entry.latin),
       !.memo_text = <<>>,
       !.button_colors = [i \in 0..3 |-> "default_button"],
       !.answer_texts =
           [i \in 0..3 |-> to_sfml_string(
               IF coin THEN opts[i + 1].hangul ELSE opts[i + 1].latin)],
       !.current_game_state = "waiting_for_answer"]

\* Lines 239-261 (320-342, 493-515): the question built from opts is shown.
show_question(s, entry, coin, opts) ==
    [s EXCEPT
       !.options = opts,
       !.correct_index = FindCorrectIndex(opts, entry, s.correct_index),
       !.question_text = to_sfml_string(IF coin THEN entry.hangul ELSE entry.latin),
       !.memo_text = <<>>,
       !.button_colors = [i \in 0..3 |-> "default_button"],
       !.answer_texts =
           [i \in 0..3 |-> to_sfml_string(
               IF coin THEN opts[i + 1].latin ELSE opts[i + 1].hangul)],
       !.current_game_state = "waiting_for_answer"]

\* The block itself (lines 217-263, 299-343, 473-516), on state s, the
\* calls having returned q.  An exception of
\* generate_enabled_question_options leaves app::run.
next_question(s, q) ==
    IF ~q.maybe_entry.has_value
    THEN show_no_entries(s)
    ELSE LET assigned == [s EXCEPT !.correct_entry = q.maybe_entry.value,
                                   !.is_hangul = q.coin]
         IN  IF q.generated.threw
             THEN [assigned EXCEPT !.run_status = "threw"]
             ELSE show_question(assigned, q.maybe_entry.value, q.coin,
                                q.generated.options)

(***************************************************************************)
(* The handlers of the event loop (app.cpp:266-522).                       *)
(***************************************************************************)
\* std::numeric_limits<std::size_t>::max(), the value selected_idx keeps for
\* a key that is no shortcut (any value >= 4 behaves alike).
size_t_max == 2147483647

\* Mutant: selected_idx starts at 0 instead of the sentinel.
SelectedIndex_starts_at_zero(scancode) ==
    CASE scancode = "Num1" -> 0
      [] scancode = "Num2" -> 1
      [] scancode = "Num3" -> 2
      [] scancode = "Num4" -> 3
      [] OTHER -> 0

\* The switch of lines 422-438.
SelectedIndex(scancode) ==
    CASE scancode = "Num1" -> 0
      [] scancode = "Num2" -> 1
      [] scancode = "Num3" -> 2
      [] scancode = "Num4" -> 3
      [] OTHER -> size_t_max

\* Mutant: the circles that are neither selected nor correct keep their
\* colour.
record_answer_keeps_others(s, i) ==
    [s EXCEPT
       !.total_questions = @ + 1,
       !.correct_answers = IF i = s.correct_index THEN @ + 1 ELSE @,
       !.button_colors =
           [j \in 0..3 |->
               IF j = s.correct_index THEN "correct_answer"
               ELSE IF j = i THEN "selected_wrong_answer"
               ELSE s.button_colors[j]],
       !.memo_text = to_sfml_string(s.correct_entry.memo),
       !.current_game_state = "show_result"]

\* Mutant: a wrong answer takes a point away.
record_answer_penalises_wrong(s, i) ==
    [s EXCEPT
       !.total_questions = @ + 1,
       !.correct_answers = IF i = s.correct_index THEN @ + 1
                           ELSE IF @ > 0 THEN @ - 1 ELSE 0,
       !.button_colors =
           [j \in 0..3 |->
               IF j = s.correct_index THEN "correct_answer"
               ELSE IF j = i THEN "selected_wrong_answer"
               ELSE "incorrect_answer"],
       !.memo_text = to_sfml_string(s.correct_entry.memo),
       !.current_game_state = "show_result"]

\* Mutant: the memo shown is that of the selected option.
record_answer_memo_of_selected(s, i) ==
    [s EXCEPT
       !.total_questions = @ + 1,
       !.correct_answers = IF i = s.correct_index THEN @ + 1 ELSE @,
       !.button_colors =
           [j \in 0..3 |->
               IF j = s.correct_index THEN "correct_answer"
               ELSE IF j = i THEN "selected_wrong_answer"
               ELSE "incorrect_answer"],
       !.memo_text = to_sfml_string(s.options[i + 1].memo),
       !.current_game_state = "show_result"]

\* Mutant: every recorded answer counts as correct.
record_answer_always_correct(s, i) ==
    [s EXCEPT
       !.total_questions = @ + 1,
       !.correct_answers = @ + 1,
       !.button_colors =
           [j \in 0..3 |->
               IF j = s.correct_index THEN "correct_answer"
               ELSE IF j = i THEN "selected_wrong_answer"
               ELSE "incorrect_answer"],
       !.memo_text = to_sfml_string(s.correct_entry.memo),
       !.current_game_state = "show_result"]

\* Mutant: the answer is recorded but the question stays open for another
\* answer.
record_answer_keeps_waiting(s, i) ==
    [s EXCEPT
       !.total_questions = @ + 1,
       !.correct_answers = IF i = s.correct_index THEN @ + 1 ELSE @,
       !.memo_text = to_sfml_string(s.correct_entry.memo)]

\* Lines 390-414 (mouse) and 440-464 (keyboard): the answer i is recorded.
record_answer(s, i) ==
    [s EXCEPT
       !.total_questions = @ + 1,
       !.correct_answers = IF i = s.correct_index THEN @ + 1 ELSE @,
       !.button_colors =
           [j \in 0..3 |->
               IF j = s.correct_index THEN "correct_answer"
               ELSE IF j = i THEN "selected_wrong_answer"
               ELSE "incorrect_answer"],
       !.memo_text = to_sfml_string(s.correct_entry.memo),
       !.current_game_state = "show_result"]

\* Does the event toggle a category (lines 275-281)?
TogglesCategory(event) ==
    /\ event.type = "MouseButtonReleased"
    /\ event.button = "Left"
    /\ Hits(toggle_buttons, event.position) # {}

\* Mutant: the reset zeroes the number of questions only.
toggle_and_reset_keeps_correct(s, event) ==
    LET category == toggle_categories(First(Hits(toggle_buttons, event.position)))
    IN  [s EXCEPT !.toggle_states[category] = ~@,
                  !.total_questions = 0]

\* Mutant: the click flips every flag of the mask.
flip_toggle_state_all(states, category) == [c \in DOMAIN states |-> ~states[c]]

\* Lines 282-283: std::unordered_map::operator[] reads the flag of the key,
\* inserting it as false when the map has no such key, and the negation is
\* stored under the key.
flip_toggle_state(states, category) ==
    [c \in DOMAIN states \cup {category} |->
        IF c = category THEN ~(c \in DOMAIN states /\ states[c]) ELSE states[c]]

\* Lines 282-292: the clicked toggle button flips its category and the
\* counters are zeroed.
toggle_and_reset(s, event) ==
    LET category == toggle_categories(First(Hits(toggle_buttons, event.position)))
    IN  [s EXCEPT !.toggle_states = flip_toggle_state(@, category),
                  !.total_questions = 0,
                  !.correct_answers = 0]

\* Mutant: the click flips the category and zeroes the counters, but no
\* new question is built.
HandleToggles_keeps_question(s, event, q) ==
    IF TogglesCategory(event) THEN toggle_and_reset(s, event) ELSE s

\* Lines 269-363, the first if / else-if chain: a left click on a toggle
\* button flips its category, zeroes the counters and builds a new question.
\* (Closed is handled in ProcessEvent; MouseMoved only redraws outlines.)
HandleToggles(s, event, q) ==
    IF TogglesCategory(event)
    THEN next_question(toggle_and_reset(s, event), q)
    ELSE s

\* Does the show_result handler build the next question (line 470)?
Acknowledges(s, event) ==
    /\ s.current_game_state = "show_result"
    /\ event.type \in {"MouseButtonReleased", "KeyPressed"}

\* Lines 366-467: the waiting_for_answer handler.  A mouse move recolours
\* the answer buttons, a left click on an answer button or a key 1-4 records
\* the answer.
handle_waiting_for_answer(s, event) ==
    IF event.type = "MouseMoved"
    THEN [s EXCEPT !.button_colors =
             [i \in 0..3 |-> IF Contains(ButtonBounds(i), event.position)
                             THEN "hover_button" ELSE "default_button"]]
    ELSE IF event.type = "MouseButtonReleased"
    THEN IF event.button = "Left" /\ Hits(button_shapes, event.position) # {}
         THEN record_answer(s, First(Hits(button_shapes, event.position)))
         ELSE s
    ELSE IF event.type = "KeyPressed"
    THEN IF SelectedIndex(event.scancode) < 4
         THEN record_answer(s, SelectedIndex(event.scancode))
         ELSE s
    ELSE s

\* Mutant: a key 1-4 pressed while a result is shown is recorded as an
\* answer.
handle_show_result_records(s, event, q) ==
    IF event.type = "KeyPressed" /\ SelectedIndex(event.scancode) < 4
    THEN record_answer(s, SelectedIndex(event.scancode))
    ELSE IF Acknowledges(s, event)
    THEN next_question([s EXCEPT !.memo_text = <<>>], q)
    ELSE s

\* Mutant: proceeding to the next question zeroes the counters.
handle_show_result_resets(s, event, q) ==
    IF Acknowledges(s, event)
    THEN next_question([s EXCEPT !.memo_text = <<>>,
                                 !.total_questions = 0,
                                 !.correct_answers = 0], q)
    ELSE s

\* Mutant: proceeding from a result takes the branch of lines 474-488, as
\* if no entry were enabled.
handle_show_result_no_entries(s, event, q) ==
    IF Acknowledges(s, event)
    THEN show_no_entries([s EXCEPT !.memo_text = <<>>])
    ELSE s

\* Lines 468-518: the show_result handler.  Any mouse click or key press
\* empties the memo and builds the next question.
handle_show_result(s, event, q) ==
    IF Acknowledges(s, event)
    THEN next_question([s EXCEPT !.memo_text = <<>>], q)
    ELSE s

\* Mutant: keys 1-4 are taken as answers while no entry is enabled.
handle_no_entries_enabled_answers(s, event) ==
    IF event.type = "KeyPressed" /\ SelectedIndex(event.scancode) < 4
    THEN record_answer(s, SelectedIndex(event.scancode))
    ELSE s

\* Lines 519-521: the no_entries_enabled handler does nothing.
handle_no_entries_enabled(s, event) == s

\* Lines 366-521, the dispatch on current_game_state, run on the same event
\* after HandleToggles.
HandleGameState(s, event, q) ==
    CASE s.current_game_state = "waiting_for_answer" ->
           handle_waiting_for_answer(s, event)
      [] s.current_game_state = "show_result" ->
           handle_show_result(s, event, q)
      [] OTHER -> handle_no_entries_enabled(s, event)

NoSample == {[maybe_entry |-> nullopt]}

\* The mask as the Vocabulary reads it: category_enabled.at(entry.category),
\* for the categories of its entries (vocabulary.cpp:82, 105).
AsCategoryEnabled(states) == [c \in Categories |-> states[c]]

\* Mutant: the dispatch falls through, so that the handler of the state the
\* event has led to sees the event too.
Dispatch_falls_through(s1, event, q2) ==
    IF s1.run_status = "running"
    THEN HandleGameState(HandleGameState(s1, event, q2), event, q2)
    ELSE s1

\* Lines 366-521 are reached unless an exception has ended app::run.
Dispatch(s1, event, q2) ==
    IF s1.run_status = "running" THEN HandleGameState(s1, event, q2) ELSE s1

\* Lines 270-273: Closed closes the window, which ends both loops after
\* this iteration.
Close(s2, event) ==
    IF event.type = "Closed" /\ s2.run_status = "running"
    THEN [s2 EXCEPT !.run_status = "returned"]
    ELSE s2

\* One iteration of the inner loop (lines 268-522): the event goes through
\* both handlers.  q1 and q2 are what the Vocabulary returns to the handler
\* that builds a question.
ProcessEvent(event) ==
    \E q1 \in IF TogglesCategory(event)
              THEN Samples[AsCategoryEnabled(toggle_and_reset(State, event).toggle_states)]
              ELSE NoSample :
      \E s1 \in {HandleToggles(State, event, q1)} :
        \E q2 \in IF s1.run_status = "running" /\ Acknowledges(s1, event)
                  THEN Samples[AsCategoryEnabled(s1.toggle_states)] ELSE NoSample :
          \E s2 \in {Close(Dispatch(s1, event, q2), event)} :
            /\ s2.total_questions <= MaxAnswered
            /\ Becomes(s2)

Closed ==
    /\ run_status = "running"
    /\ ProcessEvent([type |-> "Closed"])
    /\ UNCHANGED call

MouseButtonReleased ==
    /\ run_status = "running"
    /\ \E release \in MouseReleases :
         ProcessEvent([type |-> "MouseButtonReleased", button |-> release.button,
                       position |-> release.position])
    /\ UNCHANGED call

MouseMoved ==
    /\ run_status = "running"
    /\ \E position \in MousePositions :
         ProcessEvent([type |-> "MouseMoved", position |-> position])
    /\ UNCHANGED call

KeyPressed ==
    /\ run_status = "running"
    /\ \E scancode \in Scancodes :
         ProcessEvent([type |-> "KeyPressed", scancode |-> scancode])
    /\ UNCHANGED call

\* Any other event (key released, mouse button pressed, focus, ...).
OtherEvent ==
    /\ run_status = "running"
    /\ ProcessEvent([type |-> "Other"])
    /\ UNCHANGED call

\* The locals of app::run as declared (lines 88-92, 197-204) before the first
\* question; correct_entry is default-initialised, its category indeterminate.
Declared(category) ==
    [run_status |-> "running",
     toggle_states |-> [c \in Categories |-> TRUE],
     current_game_state |-> "waiting_for_answer",
     correct_entry |-> [hangul |-> <<>>, latin |-> <<>>, memo |-> <<>>,
                        category |-> category],
     correct_index |-> 0, is_hangul |-> TRUE,
     total_questions |-> 0, correct_answers |-> 0,
     question_text |-> <<>>, answer_texts |-> [i \in 0..3 |-> <<>>],
     memo_text |-> <<>>, button_colors |-> [i \in 0..3 |-> "default_button"],
     options |-> <<>>]

\* The state after the first question has been set up (lines 217-263).
Init ==
    /\ \E category \in Categories :
         \E q \in Samples[[c \in Categories |-> TRUE]] :
             Is(next_question(Declared(category), q))
    /\ call = "unused"

Next == Closed \/ MouseButtonReleased \/ MouseMoved \/ KeyPressed \/ OtherEvent

Spec == Init /\ [][Next]_vars

(***************************************************************************)
(* VocabSpec: one call of a Vocabulary member function on inputs drawn in  *)
(* Init; every index and every rotation is explored.                       *)
(***************************************************************************)
\* The values of num_options the calls are made with: a single option, the
\* default of the declaration, and more than the smallest category can fill.
NumOptionsValues == {1, num_options_default, MaxNumOptions}

\* The calls, on every mask and every entry of the vocabulary.
PendingCalls ==
    {[fn |-> "get_random_enabled_entry", returned |-> FALSE,
      category_enabled |-> m] : m \in Masks}
    \cup
    {[fn |-> "generate_enabled_question_options", returned |-> FALSE,
      category_enabled |-> m, correct_entry |-> entries_[k],
      num_options |-> n] :
        m \in Masks, k \in 1..Len(entries_), n \in NumOptionsValues}

VocabInit ==
    /\ call \in PendingCalls
    /\ run_status = "unused" /\ toggle_states = "unused"
    /\ current_game_state = "unused" /\ correct_entry = "unused"
    /\ correct_index = "unused" /\ is_hangul = "unused"
    /\ total_questions = "unused" /\ correct_answers = "unused"
    /\ question_text = "unused" /\ answer_texts = "unused"
    /\ memo_text = "unused" /\ button_colors = "unused" /\ options = "unused"

CallGetRandomEnabledEntry ==
    /\ call.fn = "get_random_enabled_entry" /\ ~call.returned
    /\ LET n == Len(EnabledEntries(call.category_enabled))
       IN  \E index \in IF n = 0 THEN {0} ELSE get_random_number(0, n - 1) :
             LET r == get_random_enabled_entry(call.category_enabled, index)
             IN  call' = [fn |-> call.fn, returned |-> TRUE,
                          category_enabled |-> call.category_enabled,
                          index |-> index, entry |-> r.entry,
                          rng_draws |-> r.rng_draws]
    /\ UNCHANGED appvars

CallGenerateEnabledQuestionOptions ==
    /\ call.fn = "generate_enabled_question_options" /\ ~call.returned
    /\ LET wrong == Len(WrongEntries(call.correct_entry, call.category_enabled))
       IN  \E p1 \in ShuffleOutcomes(wrong),
              p2 \in ShuffleOutcomes(call.num_options) :
             LET r == generate_enabled_question_options(
                          call.correct_entry, call.category_enabled,
                          call.num_options, p1, p2)
             IN  call' = [fn |-> call.fn, returned |-> TRUE,
                          category_enabled |-> call.category_enabled,
                          correct_entry |-> call.correct_entry,
                          num_options |-> call.num_options,
                          threw |-> r.threw, options |-> r.options]
    /\ UNCHANGED appvars

VocabNext == CallGetRandomEnabledEntry \/ CallGenerateEnabledQuestionOptions

VocabSpec == VocabInit /\ [][VocabNext]_vars

(***************************************************************************)
(* Properties of the Vocabulary member functions (VocabSpec).              *)
(***************************************************************************)
AllDisabled(category_enabled) == \A c \in Categories : ~category_enabled[c]

Returned(fn) == call.fn = fn /\ call.returned

\* C1: whenever at least 3 enabled entries have a hangul other than that of
\* the correct entry, generate_enabled_question_options returns (does not
\* throw) exactly 4 entries, the correct entry is exactly one of them, and
\* the four are pairwise distinct by hangul, for every outcome of the two
\* shuffles.
C1_UniqueOptions ==
    (/\ Returned("generate_enabled_question_options")
     /\ call.num_options = 4
     /\ Len(WrongEntries(call.correct_entry, call.category_enabled)) >= 3)
    => /\ ~call.threw
       /\ Len(call.options) = 4
       /\ Cardinality({i \in 1..4 : call.options[i] = call.correct_entry}) = 1
       /\ Cardinality({i \in 1..4 :
                          call.options[i].hangul = call.correct_entry.hangul}) = 1
       /\ \A i, j \in 1..4 :
            i # j => call.options[i].hangul # call.options[j].hangul

\* C1 witness: a call returned four options, the correct entry (whose own
\* category is disabled) was moved away from the front and the wrong
\* entries were rotated.
C1_Witness ==
    /\ Returned("generate_enabled_question_options")
    /\ call.num_options = 4
    /\ ~call.threw
    /\ ~call.category_enabled[call.correct_entry.category]
    /\ call.options[3] = call.correct_entry
    /\ call.options[4] # WrongEntries(call.correct_entry, call.category_enabled)[1]

\* C2: under a mask with at least one enabled category,
\* get_random_enabled_entry returns an entry of the vocabulary whose
\* category is enabled, for every index the random source can draw.
C2_EnabledEntry ==
    (/\ Returned("get_random_enabled_entry")
     /\ ~AllDisabled(call.category_enabled))
    => /\ call.entry.has_value
       /\ \E k \in 1..Len(entries_) : entries_[k] = call.entry.value
       /\ call.category_enabled[call.entry.value.category]

\* C2 witness: the first category is disabled and a later index was drawn.
C2_Witness ==
    /\ Returned("get_random_enabled_entry")
    /\ ~call.category_enabled["BasicVowel"]
    /\ call.category_enabled["CompoundVowel"]
    /\ call.index > 0
    /\ call.entry.has_value

\* C3: with all four categories disabled, get_random_enabled_entry returns
\* std::nullopt and never calls the random source.
C3_NoEntry ==
    (/\ Returned("get_random_enabled_entry")
     /\ AllDisabled(call.category_enabled))
    => /\ call.entry = nullopt
       /\ call.rng_draws = 0

\* C3 witness: the call under the all-disabled mask has returned.
C3_Witness ==
    /\ Returned("get_random_enabled_entry")
    /\ AllDisabled(call.category_enabled)
    /\ ~call.entry.has_value

(***************************************************************************)
(* Properties of the event loop (Spec).                                    *)
(***************************************************************************)
ReleaseEvents ==
    {[type |-> "MouseButtonReleased", button |-> release.button,
      position |-> release.position] : release \in MouseReleases}

KeyEvents == {[type |-> "KeyPressed", scancode |-> scancode] : scancode \in Scancodes}

MoveEvents == {[type |-> "MouseMoved", position |-> p] : p \in MousePositions}

AllEvents ==
    ReleaseEvents \cup KeyEvents \cup MoveEvents
    \cup {[type |-> "Closed"], [type |-> "Other"]}

\* Left clicks on a category toggle button.
ToggleClicks == {event \in ReleaseEvents : TogglesCategory(event)}

\* Answer selections: a left click on an answer circle, or a key 1-4.
AnswerSelections ==
    {event \in ReleaseEvents :
        event.button = "Left" /\ Hits(button_shapes, event.position) # {}}
    \cup {event \in KeyEvents : SelectedIndex(event.scancode) < 4}

\* The index an answer selection selects.
SelectionIndex(event) ==
    IF event.type = "KeyPressed" THEN SelectedIndex(event.scancode)
    ELSE First(Hits(button_shapes, event.position))

SomeEnabled == \E c \in Categories : toggle_states[c]

\* The mask after the event: only the flip of lines 282-283 writes it.
MaskAfter(event) ==
    IF TogglesCategory(event) THEN toggle_and_reset(State, event).toggle_states
    ELSE toggle_states

\* The step is one iteration of the loop on the event (the mask is compared
\* first: a step with another mask is not examined further).
Takes(event) == MaskAfter(event) = toggle_states' /\ ProcessEvent(event)

\* The step is one iteration of the loop on some event of the set.
StepOn(events) == \E event \in events : Takes(event)

\* The question on display is built from four options around correct_entry.
WellFormedQuestion ==
    /\ Len(options) = 4
    /\ correct_index \in 0..3
    /\ options[correct_index + 1].hangul = correct_entry.hangul

\* No question is on display: the placeholder "X", empty labels, empty memo.
NoQuestion ==
    /\ question_text = <<88>>
    /\ \A i \in 0..3 : answer_texts[i] = <<>>
    /\ memo_text = <<>>

\* The events on which a handler builds a question in the current state.
GeneratingEvents ==
    ToggleClicks \cup {event \in ReleaseEvents \cup KeyEvents :
                          current_game_state = "show_result"}

\* C4: whenever a question is generated (at startup, by a toggle or after a
\* result) under a mask that enables at least one category, the state
\* becomes waiting_for_answer, there are exactly 4 options and correct_index
\* is in 0..3 with options[correct_index].hangul = correct_entry.hangul.
C4_QuestionGenerated ==
    /\ (current_game_state = "waiting_for_answer" /\ WellFormedQuestion)
    /\ [][(run_status' = "running" /\ SomeEnabled' /\ vars' # vars)
          => \/ (current_game_state' = "waiting_for_answer" /\ WellFormedQuestion')
             \/ ~StepOn(GeneratingEvents)]_vars

\* C4 witness: a question generated after a result under a mask that has a
\* category disabled, with the correct option in the last place.
C4_Witness ==
    /\ current_game_state = "waiting_for_answer"
    /\ total_questions = 1
    /\ ~toggle_states["BasicVowel"]
    /\ correct_index = 3
    /\ ~is_hangul

\* C5: whenever a question is generated under the mask with all categories
\* disabled, the state becomes no_entries_enabled and no question exists:
\* the prompt is "X", the four labels are empty, the memo is empty.
C5_NoEntries ==
    [][(~SomeEnabled' /\ vars' # vars)
       => \/ (current_game_state' = "no_entries_enabled" /\ NoQuestion')
          \/ ~StepOn(GeneratingEvents)]_vars

\* C5 witness: the last enabled category has been toggled off.
C5_Witness ==
    /\ ~SomeEnabled
    /\ current_game_state = "no_entries_enabled"
    /\ question_text = <<88>>

\* The question on display and what it is built from.
question == <<correct_entry, correct_index, is_hangul, options,
              question_text, answer_texts>>

\* The two counters behind the percentage display.
score == <<total_questions, correct_answers>>

\* What one iteration of the loop on an event that is no toggle can make of
\* the current state, over all the entries and options that may be drawn.
Outcomes(event) ==
    {Close(Dispatch(State, event, q), event) : q \in Samples[toggle_states]}

\* The iteration on the event ends the display of the result, whatever is
\* drawn.
LeavesResultOn(event) ==
    \A s \in Outcomes(event) : s.current_game_state # "show_result"

\* C6: in waiting_for_answer, selecting answer i (left click on answer
\* circle i or key 1-4) adds exactly 1 to total_questions, adds exactly 1 to
\* correct_answers if i = correct_index and nothing otherwise, and moves to
\* show_result.  The counters change in no other way except the reset of a
\* toggle, hence after N selections with K correct since the last reset the
\* counters stand at N and K.
C6_SubmitAnswer ==
    /\ [][(current_game_state = "waiting_for_answer" /\ vars' # vars)
          => \A event \in AnswerSelections :
               \/ /\ total_questions' = total_questions + 1
                  /\ correct_answers' =
                        correct_answers
                        + (IF SelectionIndex(event) = correct_index THEN 1 ELSE 0)
                  /\ current_game_state' = "show_result"
               \/ ~Takes(event)]_vars
    /\ [][\/ UNCHANGED score
          \/ /\ toggle_states' # toggle_states
             /\ total_questions' = 0
             /\ correct_answers' = 0
          \/ /\ current_game_state = "waiting_for_answer"
             /\ current_game_state' = "show_result"
             /\ total_questions' = total_questions + 1
             /\ correct_answers' \in {correct_answers, correct_answers + 1}]_vars

\* C6 witness: two answers have been given, one of them correct.
C6_Witness ==
    /\ current_game_state = "show_result"
    /\ total_questions = 2
    /\ correct_answers = 1

\* C7 as stated: an answer selection made while a result is shown changes
\* neither the counters, nor the state, nor the question.
C7_SelectionIgnored ==
    [][(current_game_state = "show_result" /\ vars' # vars)
       => \/ UNCHANGED <<score, current_game_state, question>>
          \/ ~StepOn(AnswerSelections)]_vars

\* C7: an answer selection made while a result is shown records no answer
\* (the counters keep their values), but it is not ignored: like any other
\* key press or click it proceeds to the next question, so the state leaves
\* show_result for waiting_for_answer with a newly built question.
C7_SelectionProceeds ==
    /\ [](current_game_state = "show_result" /\ run_status = "running"
          => \A event \in AnswerSelections : LeavesResultOn(event))
    /\ [][(current_game_state = "show_result" /\ vars' # vars)
          => \/ /\ UNCHANGED score
                /\ current_game_state' = "waiting_for_answer"
                /\ WellFormedQuestion'
                /\ \A i \in 0..3 : button_colors'[i] = "default_button"
             \/ ~StepOn(AnswerSelections)]_vars

\* C7 witness: two correct answers, and the second result has been left.
C7_Witness ==
    /\ current_game_state = "waiting_for_answer"
    /\ total_questions = 2
    /\ correct_answers = 2

\* C8: in no_entries_enabled every input other than a left click on a
\* toggle button leaves the state, the counters and the (empty) question
\* unchanged; only a toggle leaves no_entries_enabled.
C8_NoEntriesInert ==
    /\ [](current_game_state = "no_entries_enabled" => NoQuestion)
    /\ [][(current_game_state = "no_entries_enabled" /\ vars' # vars)
          => /\ \/ UNCHANGED <<current_game_state, score, question, memo_text,
                               toggle_states, button_colors>>
                \/ ~StepOn(AllEvents \ ToggleClicks)
             /\ \/ current_game_state' = "no_entries_enabled"
                \/ StepOn(ToggleClicks)]_vars

\* C8 witness: the window was closed while no entry was enabled.
C8_Witness ==
    /\ current_game_state = "no_entries_enabled"
    /\ run_status = "returned"

\* C9 as stated: in show_result any mouse button release and any key press
\* builds a new question and leaves the counters unchanged.
C9_AnyInputKeepsScore ==
    [][(current_game_state = "show_result" /\ vars' # vars)
       => \/ /\ UNCHANGED score
             /\ memo_text' = <<>>
             /\ current_game_state' = IF SomeEnabled' THEN "waiting_for_answer"
                                      ELSE "no_entries_enabled"
          \/ ~StepOn(ReleaseEvents \cup KeyEvents)]_vars

\* C9: in show_result any key press, and any mouse button release other
\* than a left click on a toggle button, builds a new question from the
\* unchanged mask and leaves the state waiting_for_answer if a category is
\* enabled and no_entries_enabled otherwise, without changing the counters;
\* the memo is emptied.
C9_Acknowledge ==
    /\ [](current_game_state = "show_result" /\ run_status = "running"
          => \A event \in (ReleaseEvents \cup KeyEvents) \ ToggleClicks :
               LeavesResultOn(event))
    /\ [][(current_game_state = "show_result" /\ vars' # vars)
          => \/ /\ UNCHANGED <<score, toggle_states>>
                /\ memo_text' = <<>>
                /\ current_game_state' = IF SomeEnabled' THEN "waiting_for_answer"
                                         ELSE "no_entries_enabled"
                /\ current_game_state' = "waiting_for_answer"
                      => /\ WellFormedQuestion'
                         /\ toggle_states'[correct_entry'.category]
             \/ ~StepOn((ReleaseEvents \cup KeyEvents) \ ToggleClicks)]_vars

\* C9 witness: two wrong answers, and the second result has been left with
\* the memo emptied.
C9_Witness ==
    /\ current_game_state = "waiting_for_answer"
    /\ total_questions = 2
    /\ correct_answers = 0
    /\ memo_text = <<>>

\* C10: a toggle, in whichever state it is performed, zeroes both counters
\* and then builds a new question from the new mask: after it the state is
\* waiting_for_answer or no_entries_enabled, never show_result.
C10_ToggleResets ==
    [][(vars' # vars)
       => \/ /\ total_questions' = 0
             /\ correct_answers' = 0
             /\ current_game_state' = IF SomeEnabled' THEN "waiting_for_answer"
                                      ELSE "no_entries_enabled"
             /\ current_game_state' = "waiting_for_answer"
                   => /\ WellFormedQuestion'
                      /\ toggle_states'[correct_entry'.category]
          \/ ~StepOn(ToggleClicks)]_vars

\* C10 witness: toggles have left a single category enabled, the counters
\* are at zero and the new question is drawn from that category.
C10_Witness ==
    /\ toggle_states = [category \in Categories |-> category = "DoubleConsonant"]
    /\ current_game_state = "waiting_for_answer"
    /\ total_questions = 0
    /\ correct_answers = 0
    /\ correct_entry.category = "DoubleConsonant"

\* Key presses of a key other than 1-4.
OtherKeys ==
    {event \in KeyEvents : event.scancode \notin {"Num1", "Num2", "Num3", "Num4"}}

\* C11: in waiting_for_answer a key other than 1-4 selects no index (the
\* selected index stays at the sentinel) and is a no-op: the counters, the
\* state, the question and correct_index are what they were, whatever the
\* iteration of the loop on that key could draw.
C11_OtherKeyRejected ==
    (current_game_state = "waiting_for_answer" /\ run_status = "running")
    => \A event \in OtherKeys :
         /\ SelectedIndex(event.scancode) >= Len(options)
         /\ \A s \in Outcomes(event) :
              /\ s.total_questions = total_questions
              /\ s.correct_answers = correct_answers
              /\ s.current_game_state = current_game_state
              /\ s.correct_index = correct_index
              /\ s = State

\* C11 witness: a question is waiting after one answer, and the space key
\* is among the keys that select nothing.
C11_Witness ==
    /\ current_game_state = "waiting_for_answer"
    /\ run_status = "running"
    /\ total_questions = 1
    /\ correct_index = 2
    /\ \E event \in OtherKeys :
         event.scancode = "Space" /\ Outcomes(event) = {State}

\* The highlight of the four circles once answer `selected` is recorded
\* against the correct index `correct`.
Highlighted(colors, selected, correct) ==
    /\ colors[correct] = "correct_answer"
    /\ selected # correct => colors[selected] = "selected_wrong_answer"
    /\ \A j \in 0..3 \ {selected, correct} : colors[j] = "incorrect_answer"
    /\ Cardinality({j \in 0..3 : colors[j] = "correct_answer"}) = 1
    /\ Cardinality({j \in 0..3 : colors[j] = "selected_wrong_answer"}) <= 1
    /\ \A j \in 0..3 : colors[j] \notin {"default_button", "hover_button"}

\* C12: after any valid answer with selected index s the circle at
\* correct_index is 'correct', the circle at s is 'selected-wrong' if s is
\* not correct_index, and every other circle is 'incorrect'; exactly one
\* circle is 'correct', at most one 'selected-wrong', none keeps the default
\* or hover colour.  The highlight stays while the result is shown.
C12_Highlight ==
    /\ (current_game_state = "waiting_for_answer" /\ run_status = "running")
       => \A event \in AnswerSelections :
            \A s \in Outcomes(event) :
              /\ s.current_game_state = "show_result"
              /\ Highlighted(s.button_colors, SelectionIndex(event), correct_index)
    /\ current_game_state = "show_result"
       => \E selected \in 0..3 : Highlighted(button_colors, selected, correct_index)

\* C12 witness: a wrong answer (the first circle) is on display next to the
\* correct one (the second circle).
C12_Witness ==
    /\ current_game_state = "show_result"
    /\ correct_index = 1
    /\ button_colors[0] = "selected_wrong_answer"
    /\ button_colors[1] = "correct_answer"
    /\ button_colors[2] = "incorrect_answer"

(***************************************************************************)
(* Properties of the vocabulary table and of the Vocabulary functions       *)
(* (VocabSpec).                                                             *)
(***************************************************************************)
\* The entries of the table that belong to the category.
EntriesOf(category) ==
    SelectSeq(entries_, LAMBDA entry : entry.category = category)

\* The hangul values of a sequence of entries.
HangulOf(entries) == {entries[k].hangul : k \in 1..Len(entries)}

\* The mask that enables the one category.
Only(category) == [c \in Categories |-> c = category]

\* C13: every one of the four categories has at least 4 distinct entries in
\* the vocabulary built by the constructor; so a call made with a single
\* category enabled finds at least 4 enabled entries.
C13_CategorySizes ==
    \A category \in Categories :
        /\ Len(EntriesOf(category)) >= 4
        /\ Cardinality(HangulOf(EntriesOf(category))) >= 4
        /\ Cardinality({EntriesOf(category)[k] : k \in 1..Len(EntriesOf(category))}) >= 4
        /\ call.category_enabled = Only(category)
              => Len(EnabledEntries(call.category_enabled)) >= 4

\* C13 witness: with only the smallest category (the double consonants)
\* enabled, the fourth of its entries has been drawn.
C13_Witness ==
    /\ Returned("get_random_enabled_entry")
    /\ call.category_enabled = Only("DoubleConsonant")
    /\ call.index = 3
    /\ call.entry.has_value
    /\ call.entry.value = EntriesOf("DoubleConsonant")[4]

\* get_random_enabled_entry can return the entry under the mask.
CanBeDrawn(entry, category_enabled) ==
    \E index \in get_random_number(0, Len(EnabledEntries(category_enabled)) - 1) :
        get_random_enabled_entry(category_enabled, index).entry = Some(entry)

\* C14: with the shipped vocabulary the data-integrity exception cannot
\* occur: for every mask that enables at least one category (toggles reach
\* all of them) and every correct entry get_random_enabled_entry can return
\* for it, generate_enabled_question_options returns without throwing.
C14_NeverThrows ==
    (/\ Returned("generate_enabled_question_options")
     /\ call.num_options = num_options_default
     /\ ~AllDisabled(call.category_enabled)
     /\ CanBeDrawn(call.correct_entry, call.category_enabled))
    => /\ ~call.threw
       /\ Len(call.options) = call.num_options

\* C14 witness: with only the double consonants enabled (four wrong entries
\* are left for the three places), the call for the last of them returned
\* its options.
C14_Witness ==
    /\ Returned("generate_enabled_question_options")
    /\ call.category_enabled = Only("DoubleConsonant")
    /\ call.correct_entry = EntriesOf("DoubleConsonant")[5]
    /\ CanBeDrawn(call.correct_entry, call.category_enabled)
    /\ ~call.threw
    /\ Len(call.options) = 4

\* The number of enabled entries of the vocabulary whose hangul is not that
\* of the entry.
OtherCandidates(entry, category_enabled) ==
    Cardinality({k \in 1..Len(entries_) :
                    /\ category_enabled[entries_[k].category]
                    /\ entries_[k].hangul # entry.hangul})

\* C15: generate_enabled_question_options throws std::runtime_error exactly
\* when the enabled entries with a hangul other than correct.hangul number
\* fewer than num_options - 1; when it returns, the list is never shorter
\* than num_options.
C15_ThrowsWhenShort ==
    Returned("generate_enabled_question_options")
    => /\ call.threw
            <=> OtherCandidates(call.correct_entry, call.category_enabled)
                   < call.num_options - 1
       /\ ~call.threw => Len(call.options) >= call.num_options

\* C15 witness: with only the five double consonants enabled, four other
\* candidates cannot fill a list longer than five, and the call threw.
C15_Witness ==
    /\ Returned("generate_enabled_question_options")
    /\ call.category_enabled = Only("DoubleConsonant")
    /\ call.correct_entry.category = "DoubleConsonant"
    /\ OtherCandidates(call.correct_entry, call.category_enabled) = 4
    /\ call.num_options > 5
    /\ call.threw

(***************************************************************************)
(* Further properties of the event loop (Spec).                            *)
(***************************************************************************)
\* The step flips the category of one toggle button (lines 282-283), as a
\* left click on that button does.
Toggled ==
    /\ toggle_states' # toggle_states
    /\ \E event \in ToggleClicks : MaskAfter(event) = toggle_states'

\* C16: total_questions and correct_answers never decrease, except on the
\* reset performed by a category toggle (which zeroes both).
C16_Monotonic ==
    [][(total_questions' < total_questions \/ correct_answers' < correct_answers)
       => /\ Toggled
          /\ total_questions' = 0
          /\ correct_answers' = 0]_vars

\* C16 witness: two categories have been toggled off after an answer was
\* counted in between, and the counters are back at zero.
C16_Witness ==
    /\ ~toggle_states["BasicVowel"]
    /\ ~toggle_states["BasicConsonant"]
    /\ toggle_states["DoubleConsonant"]
    /\ toggle_states["CompoundVowel"]
    /\ total_questions = 0
    /\ correct_answers = 0
    /\ current_game_state = "waiting_for_answer"

(***************************************************************************)
(* Further properties of the vocabulary (VocabSpec).                       *)
(***************************************************************************)
\* No two places of the table hold the same hangul.
PairwiseDistinctHangul ==
    \A i, j \in 1..Len(entries_) :
        i # j => entries_[i].hangul # entries_[j].hangul

\* C17: no two entries of the vocabulary share the same hangul value; so
\* the correct entry of a call is the only entry with its hangul.
C17_UniqueHangul ==
    /\ PairwiseDistinctHangul
    /\ call.fn = "generate_enabled_question_options"
         => Cardinality({k \in 1..Len(entries_) :
                            entries_[k].hangul = call.correct_entry.hangul}) = 1

\* C17 witness: with every category enabled, the call for the last entry of
\* the table found every other entry of the table as a wrong candidate.
C17_Witness ==
    /\ Returned("generate_enabled_question_options")
    /\ call.category_enabled = [category \in Categories |-> TRUE]
    /\ call.correct_entry = entries_[Len(entries_)]
    /\ Len(WrongEntries(call.correct_entry, call.category_enabled))
          = Len(entries_) - 1
    /\ Cardinality(HangulOf(entries_)) = Len(entries_)

(***************************************************************************)
(* Properties of what is on display (Spec).                                *)
(***************************************************************************)
\* The text consists of Hangul compatibility jamo (U+3131..U+318E).
IsHangulText(text) ==
    Len(text) > 0 /\ \A k \in 1..Len(text) : text[k] \in 12593..12686

\* The text consists of ASCII characters.
IsLatinText(text) ==
    Len(text) > 0 /\ \A k \in 1..Len(text) : text[k] \in 32..126

\* In every entry of the table the hangul side is Hangul and the latin side
\* is ASCII, once converted for display.
SidesDiffer ==
    \A k \in 1..Len(entries_) :
        /\ IsHangulText(to_sfml_string(entries_[k].hangul))
        /\ IsLatinText(to_sfml_string(entries_[k].latin))

\* A question is on display (being answered or with its result shown).
QuestionShown ==
    current_game_state \in {"waiting_for_answer", "show_result"}

\* C18: for every generated question, if is_hangul then the prompt is
\* correct_entry.hangul and the label of option i is options[i].latin for
\* all i in 0..3; otherwise the prompt is correct_entry.latin and the label
\* of option i is options[i].hangul.  Prompt and labels are never on the
\* same side.
C18_PromptAndLabels ==
    QuestionShown
    => /\ Len(options) = 4
       /\ SidesDiffer
       /\ is_hangul
            => /\ question_text = to_sfml_string(correct_entry.hangul)
               /\ \A i \in 0..3 : answer_texts[i] = to_sfml_string(options[i + 1].latin)
               /\ IsHangulText(question_text)
               /\ \A i \in 0..3 : IsLatinText(answer_texts[i])
       /\ ~is_hangul
            => /\ question_text = to_sfml_string(correct_entry.latin)
               /\ \A i \in 0..3 : answer_texts[i] = to_sfml_string(options[i + 1].hangul)
               /\ IsLatinText(question_text)
               /\ \A i \in 0..3 : IsHangulText(answer_texts[i])

\* C18 witness: a hangul prompt (one jamo) with latin labels has been
\* answered, and a latin prompt with hangul labels is reachable as well
\* (C4 witness).
C18_Witness ==
    /\ current_game_state = "show_result"
    /\ is_hangul
    /\ Len(question_text) = 1
    /\ IsHangulText(question_text)
    /\ \A i \in 0..3 : IsLatinText(answer_texts[i])
    /\ ~toggle_states["BasicConsonant"]

\* Lines 529-531: the memo text is drawn only in show_result; in the other
\* states the frame shows no memo.
DisplayedMemo ==
    IF current_game_state = "show_result" THEN memo_text ELSE <<>>

\* C19: the memo is displayed only while the state is show_result, and then
\* it is the memo of the correct entry of the question just answered; in
\* waiting_for_answer and no_entries_enabled no memo is displayed (and the
\* memo text itself is empty).
C19_Memo ==
    /\ DisplayedMemo = IF current_game_state = "show_result"
                       THEN to_sfml_string(correct_entry.memo) ELSE <<>>
    /\ current_game_state = "show_result"
         => /\ options[correct_index + 1].memo = correct_entry.memo
            /\ memo_text = to_sfml_string(options[correct_index + 1].memo)
    /\ current_game_state # "show_result" => memo_text = <<>>

\* C19 witness: a wrong answer was given and the memo of the correct entry
\* is on display.
C19_Witness ==
    /\ current_game_state = "show_result"
    /\ total_questions = 1
    /\ correct_answers = 0
    /\ DisplayedMemo # <<>>
    /\ DisplayedMemo = to_sfml_string(correct_entry.memo)

\* Every option of the list other than the correct entry is of an enabled
\* category and has another hangul than the correct entry.
WrongOptionsEnabled(opts, correct, category_enabled) ==
    \A i \in 1..Len(opts) :
        opts[i] # correct
        => /\ category_enabled[opts[i].category]
           /\ opts[i].hangul # correct.hangul

\* What generate_enabled_question_options can return for the entry under the
\* mask, over the outcomes of its two shuffles.
ReturnedOptions(correct, category_enabled) ==
    {generate_enabled_question_options(correct, category_enabled,
                                       num_options_default, p1, p2) :
        p1 \in ShuffleOutcomes(Len(WrongEntries(correct, category_enabled))),
        p2 \in ShuffleOutcomes(num_options_default)}

\* For every mask and every entry of the table as the correct entry, every
\* list the function returns has its wrong options enabled.
AllWrongOptionsEnabled ==
    \A category_enabled \in Masks :
        \A k \in 1..Len(entries_) :
            \A r \in ReturnedOptions(entries_[k], category_enabled) :
                WrongOptionsEnabled(r.options, entries_[k], category_enabled)

\* C20: every option returned by generate_enabled_question_options other
\* than the correct entry belongs to a category enabled in the mask and has
\* a hangul other than correct.hangul; consequently, while a question is
\* shown, no option comes from a category that is disabled.
C20_OptionsEnabled ==
    /\ AllWrongOptionsEnabled
    /\ QuestionShown
         => /\ WrongOptionsEnabled(options, correct_entry, toggle_states)
            /\ \A i \in 1..Len(options) : toggle_states[options[i].category]

\* C20 witness: with only the compound vowels left enabled after an answer,
\* the question shown has its four options among them.
C20_Witness ==
    /\ toggle_states = Only("CompoundVowel")
    /\ current_game_state = "show_result"
    /\ Len(options) = 4
    /\ \A i \in 1..4 : options[i].category = "CompoundVowel"

(***************************************************************************)
(* The Vocabulary that keeps the enabled categories itself                 *)
(* (core/vocabulary.cpp).  In StatefulSpec, call.category_enabled is the    *)
(* member category_enabled of the object and the other fields of call      *)
(* record the last member function called.                                 *)
(***************************************************************************)
\* The table of the constructor (core/vocabulary.cpp:18-65), in order.
entries ==
  <<
    \* 1 (core/vocabulary.cpp:20): U+314F  "a"
    [hangul |-> <<227, 133, 143>>, latin |-> <<97>>, category |-> "BasicVowel"],
    \* 2 (core/vocabulary.cpp:21): U+3151  "ya"
    [hangul |-> <<227, 133, 145>>, latin |-> <<121, 97>>, category |-> "BasicVowel"],
    \* 3 (core/vocabulary.cpp:22): U+3153  "eo"
    [hangul |-> <<227, 133, 147>>, latin |-> <<101, 111>>, category |-> "BasicVowel"],
    \* 4 (core/vocabulary.cpp:23): U+3155  "yeo"
    [hangul |-> <<227, 133, 149>>, latin |-> <<121, 101, 111>>, category |-> "BasicVowel"],
    \* 5 (core/vocabulary.cpp:24): U+3157  "o"
    [hangul |-> <<227, 133, 151>>, latin |-> <<111>>, category |-> "BasicVowel"],
    \* 6 (core/vocabulary.cpp:25): U+315B  "yo"
    [hangul |-> <<227, 133, 155>>, latin |-> <<121, 111>>, category |-> "BasicVowel"],
    \* 7 (core/vocabulary.cpp:26): U+315C  "u"
    [hangul |-> <<227, 133, 156>>, latin |-> <<117>>, category |-> "BasicVowel"],
    \* 8 (core/vocabulary.cpp:27): U+3160  "yu"
    [hangul |-> <<227, 133, 160>>, latin |-> <<121, 117>>, category |-> "BasicVowel"],
    \* 9 (core/vocabulary.cpp:28): U+3161  "eu"
    [hangul |-> <<227, 133, 161>>, latin |-> <<101, 117>>, category |-> "BasicVowel"],
    \* 10 (core/vocabulary.cpp:29): U+3163  "i"
    [hangul |-> <<227, 133, 163>>, latin |-> <<105>>, category |-> "BasicVowel"],
    \* 11 (core/vocabulary.cpp:32): U+3131  "g"
    [hangul |-> <<227, 132, 177>>, latin |-> <<103>>, category |-> "BasicConsonant"],
    \* 12 (core/vocabulary.cpp:33): U+3134  "n"
    [hangul |-> <<227, 132, 180>>, latin |-> <<110>>, category |-> "BasicConsonant"],
    \* 13 (core/vocabulary.cpp:34): U+3137  "d"
    [hangul |-> <<227, 132, 183>>, latin |-> <<100>>, category |-> "BasicConsonant"],
    \* 14 (core/vocabulary.cpp:35): U+3139  "r/l"
    [hangul |-> <<227, 132, 185>>, latin |-> <<114, 47, 108>>, category |-> "BasicConsonant"],
    \* 15 (core/vocabulary.cpp:36): U+3141  "m"
    [hangul |-> <<227, 133, 129>>, latin |-> <<109>>, category |-> "BasicConsonant"],
    \* 16 (core/vocabulary.cpp:37): U+3142  "b"
    [hangul |-> <<227, 133, 130>>, latin |-> <<98>>, category |-> "BasicConsonant"],
    \* 17 (core/vocabulary.cpp:38): U+3145  "s"
    [hangul |-> <<227, 133, 133>>, latin |-> <<115>>, category |-> "BasicConsonant"],
    \* 18 (core/vocabulary.cpp:39): U+3147  "ng"
    [hangul |-> <<227, 133, 135>>, latin |-> <<110, 103>>, category |-> "BasicConsonant"],
    \* 19 (core/vocabulary.cpp:40): U+3148  "j"
    [hangul |-> <<227, 133, 136>>, latin |-> <<106>>, category |-> "BasicConsonant"],
    \* 20 (core/vocabulary.cpp:41): U+314A  "ch"
    [hangul |-> <<227, 133, 138>>, latin |-> <<99, 104>>, category |-> "BasicConsonant"],
    \* 21 (core/vocabulary.cpp:42): U+314B  "k"
    [hangul |-> <<227, 133, 139>>, latin |-> <<107>>, category |-> "BasicConsonant"],
    \* 22 (core/vocabulary.cpp:43): U+314C  "t"
    [hangul |-> <<227, 133, 140>>, latin |-> <<116>>, category |-> "BasicConsonant"],
    \* 23 (core/vocabulary.cpp:44): U+314D  "p"
    [hangul |-> <<227, 133, 141>>, latin |-> <<112>>, category |-> "BasicConsonant"],
    \* 24 (core/vocabulary.cpp:45): U+314E  "h"
    [hangul |-> <<227, 133, 142>>, latin |-> <<104>>, category |-> "BasicConsonant"],
    \* 25 (core/vocabulary.cpp:48): U+3132  "kk"
    [hangul |-> <<227, 132, 178>>, latin |-> <<107, 107>>, category |-> "DoubleConsonant"],
    \* 26 (core/vocabulary.cpp:49): U+3138  "tt"
    [hangul |-> <<227, 132, 184>>, latin |-> <<116, 116>>, category |-> "DoubleConsonant"],
    \* 27 (core/vocabulary.cpp:50): U+3143  "pp"
    [hangul |-> <<227, 133, 131>>, latin |-> <<112, 112>>, category |-> "DoubleConsonant"],
    \* 28 (core/vocabulary.cpp:51): U+3146  "ss"
    [hangul |-> <<227, 133, 134>>, latin |-> <<115, 115>>, category |-> "DoubleConsonant"],
    \* 29 (core/vocabulary.cpp:52): U+3149  "jj"
    [hangul |-> <<227, 133, 137>>, latin |-> <<106, 106>>, category |-> "DoubleConsonant"],
    \* 30 (core/vocabulary.cpp:55): U+3150  "ae"
    [hangul |-> <<227, 133, 144>>, latin |-> <<97, 101>>, category |-> "CompoundVowel"],
    \* 31 (core/vocabulary.cpp:56): U+3152  "yae"
    [hangul |-> <<227, 133, 146>>, latin |-> <<121, 97, 101>>, category |-> "CompoundVowel"],
    \* 32 (core/vocabulary.cpp:57): U+3154  "e"
    [hangul |-> <<227, 133, 148>>, latin |-> <<101>>, category |-> "CompoundVowel"],
    \* 33 (core/vocabulary.cpp:58): U+3156  "ye"
    [hangul |-> <<227, 133, 150>>, latin |-> <<121, 101>>, category |-> "CompoundVowel"],
    \* 34 (core/vocabulary.cpp:59): U+3158  "wa"
    [hangul |-> <<227, 133, 152>>, latin |-> <<119, 97>>, category |-> "CompoundVowel"],
    \* 35 (core/vocabulary.cpp:60): U+3159  "wae"
    [hangul |-> <<227, 133, 153>>, latin |-> <<119, 97, 101>>, category |-> "CompoundVowel"],
    \* 36 (core/vocabulary.cpp:61): U+315A  "oe"
    [hangul |-> <<227, 133, 154>>, latin |-> <<111, 101>>, category |-> "CompoundVowel"],
    \* 37 (core/vocabulary.cpp:62): U+315D  "wo"
    [hangul |-> <<227, 133, 157>>, latin |-> <<119, 111>>, category |-> "CompoundVowel"],
    \* 38 (core/vocabulary.cpp:63): U+315E  "we"
    [hangul |-> <<227, 133, 158>>, latin |-> <<119, 101>>, category |-> "CompoundVowel"],
    \* 39 (core/vocabulary.cpp:64): U+315F  "wi"
    [hangul |-> <<227, 133, 159>>, latin |-> <<119, 105>>, category |-> "CompoundVowel"],
    \* 40 (core/vocabulary.cpp:65): U+3162  "ui"
    [hangul |-> <<227, 133, 162>>, latin |-> <<117, 105>>, category |-> "CompoundVowel"]
  >>

\* core/vocabulary.cpp:116-120: the enabled entries with another hangul.
wrong_entries_of(correct, category_enabled) ==
    LET Wrong(entry) == category_enabled[entry.category]
                        /\ entry.hangul # correct.hangul
    IN  SelectSeq(entries, Wrong)

\* core/vocabulary.cpp:112-131: options before the last shuffle; shuffle1 is
\* the outcome of the shuffle of the wrong entries.
options_before_shuffle(correct, category_enabled, num_options, shuffle1) ==
    AddWrongEntries(<<correct>>,
                    shuffle(wrong_entries_of(correct, category_enabled), shuffle1),
                    1, num_options)

\* Vocabulary::get_question_options (core/vocabulary.cpp:110-137).  There is
\* no length test and no throw statement: whatever was collected is shuffled
\* and returned.
get_question_options(correct, category_enabled, num_options, shuffle1, shuffle2) ==
    [threw |-> FALSE,
     options |-> shuffle(options_before_shuffle(correct, category_enabled,
                                                num_options, shuffle1),
                         shuffle2)]

\* Vocabulary::set_category_enabled (core/vocabulary.cpp:139-142).
set_category_enabled(category_enabled, category, enabled) ==
    [category_enabled EXCEPT ![category] = enabled]

\* The constructor: every category enabled (core/vocabulary.cpp:68-72).
StatefulInit ==
    /\ call = [fn |-> "Vocabulary", returned |-> TRUE,
               category_enabled |-> [category \in Categories |-> TRUE]]
    /\ run_status = "unused" /\ toggle_states = "unused"
    /\ current_game_state = "unused" /\ correct_entry = "unused"
    /\ correct_index = "unused" /\ is_hangul = "unused"
    /\ total_questions = "unused" /\ correct_answers = "unused"
    /\ question_text = "unused" /\ answer_texts = "unused"
    /\ memo_text = "unused" /\ button_colors = "unused" /\ options = "unused"

\* get_question_options leaves category_enabled as it is: what can be called
\* after it can be called before it, so a behaviour is followed up to its
\* first get_question_options.
CallSetCategoryEnabled ==
    /\ call.fn # "get_question_options"
    /\ \E category \in Categories, enabled \in BOOLEAN :
         call' = [fn |-> "set_category_enabled", returned |-> TRUE,
                  category_enabled |->
                      set_category_enabled(call.category_enabled, category, enabled)]
    /\ UNCHANGED appvars

CallGetQuestionOptions ==
    /\ call.fn # "get_question_options"
    /\ \E k \in 1..Len(entries), n \in NumOptionsValues :
         \E p1 \in ShuffleOutcomes(Len(wrong_entries_of(entries[k], call.category_enabled))) :
           \E p2 \in ShuffleOutcomes(Len(options_before_shuffle(
                                            entries[k], call.category_enabled, n, p1))) :
             \E r \in {get_question_options(entries[k], call.category_enabled, n, p1, p2)} :
               call' = [fn |-> "get_question_options", returned |-> TRUE,
                        category_enabled |-> call.category_enabled,
                        correct_entry |-> entries[k],
                        num_options |-> n,
                        threw |-> r.threw, options |-> r.options]
    /\ UNCHANGED appvars

StatefulNext == CallSetCategoryEnabled \/ CallGetQuestionOptions

StatefulSpec == StatefulInit /\ [][StatefulNext]_vars

\* C21 as stated: get_question_options either returns exactly num_options
\* entries or throws std::runtime_error, under every configuration set
\* through set_category_enabled, all categories disabled included.
C21_ExactlyOrThrows ==
    Returned("get_question_options")
    => \/ call.threw
       \/ Len(call.options) = call.num_options

(***************************************************************************)
(* main (main.cpp:20-49): app::run inside a try block.  call holds main's  *)
(* position and, once main has returned, its exit code.                    *)
(***************************************************************************)
\* The exit code of main once app::run has ended: the two catch clauses
\* (lines 40-47) return EXIT_FAILURE, line 48 returns EXIT_SUCCESS.
main_always_succeeds(status) == "EXIT_SUCCESS"

main(status) == IF status = "threw" THEN "EXIT_FAILURE" ELSE "EXIT_SUCCESS"

\* The first use of the embedded font (app.cpp:113) throws
\* std::runtime_error when the font data cannot be opened
\* (core/assets/font.cpp:32-34): app::run is left before its first question.
EmbeddedFontFails ==
    \E category \in Categories :
        Is([Declared(category) EXCEPT !.run_status = "threw"])

\* main has called app::run (line 38), which has either set up its first
\* question or failed to load the font.
MainInit ==
    /\ call = [fn |-> "main", returned |-> FALSE]
    /\ \/ \E category \in Categories :
            \E q \in Samples[[c \in Categories |-> TRUE]] :
                Is(next_question(Declared(category), q))
       \/ EmbeddedFontFails

\* app::run has ended: main returns through a catch clause or line 48.
MainReturns ==
    /\ run_status # "running"
    /\ ~call.returned
    /\ call' = [fn |-> "main", returned |-> TRUE, exit_code |-> main(run_status)]
    /\ UNCHANGED appvars

MainNext == Next \/ MainReturns

MainSpec == MainInit /\ [][MainNext]_vars

\* C22: an exception that leaves app::run makes main return EXIT_FAILURE, and
\* main returns EXIT_SUCCESS only when app::run has returned normally.
C22_ExitCode ==
    Returned("main")
    => /\ run_status = "threw" => call.exit_code = "EXIT_FAILURE"
       /\ call.exit_code = "EXIT_SUCCESS" => run_status = "returned"

\* main has returned EXIT_FAILURE after an exception left app::run.
C22_Witness ==
    Returned("main") /\ run_status = "threw" /\ call.exit_code = "EXIT_FAILURE"

(***************************************************************************)
(* The category mask (app.cpp:88-92) and the session state.                *)
(***************************************************************************)
\* C23: the mask always has exactly the four categories as keys (a toggle
\* neither adds nor removes a key), so category_enabled.at(entry.category)
\* finds its key for every entry of the vocabulary.
C23_MaskKeys ==
    /\ DOMAIN toggle_states = Categories
    /\ \A k \in 1..Len(entries_) : entries_[k].category \in DOMAIN toggle_states

\* C23 witness: toggle buttons have been clicked (two categories are
\* disabled) and the mask still has its four keys.
C23_Witness ==
    /\ run_status = "running"
    /\ ~toggle_states["BasicVowel"]
    /\ ~toggle_states["CompoundVowel"]
    /\ toggle_states["BasicConsonant"]
    /\ DOMAIN toggle_states = Categories

\* What one iteration of the loop on the event can make of the current
\* state, through both handlers, over all the entries and options that may
\* be drawn.
Results(event) ==
    UNION {{Close(Dispatch(s1, event, q2), event) :
               q2 \in IF s1.run_status = "running" /\ Acknowledges(s1, event)
                      THEN Samples[AsCategoryEnabled(s1.toggle_states)]
                      ELSE NoSample} :
           s1 \in {HandleToggles(State, event, q1) :
                      q1 \in IF TogglesCategory(event)
                             THEN Samples[AsCategoryEnabled(
                                      toggle_and_reset(State, event).toggle_states)]
                             ELSE NoSample}}

\* The toggle button the event is a left click on, if any.
ClickedToggles(event) ==
    IF event.type = "MouseButtonReleased" /\ event.button = "Left"
    THEN {i \in 0..3 : Contains(toggle_buttons[i], event.position)}
    ELSE {}

\* C24: only a toggle changes the mask.  A left click on toggle button i
\* flips the flag of category i and leaves the other three flags alone; any
\* other event (answer, acknowledgement, key press, mouse move, release of
\* another mouse button, ...) leaves all four flags alone.
C24_OnlyToggles ==
    [](run_status = "running"
       => \A event \in AllEvents : \A s \in Results(event) :
             /\ \A i \in ClickedToggles(event) :
                   /\ s.toggle_states[toggle_categories(i)]
                          = ~toggle_states[toggle_categories(i)]
                   /\ \A c \in Categories \ {toggle_categories(i)} :
                          s.toggle_states[c] = toggle_states[c]
             /\ ClickedToggles(event) = {} => s.toggle_states = toggle_states)

\* C24 witness: the third toggle button has been clicked, and only its
\* category is disabled.
C24_Witness ==
    /\ run_status = "running"
    /\ toggle_states = [c \in Categories |-> c # "DoubleConsonant"]
    /\ current_game_state = "waiting_for_answer"

\* C25: the state is no_entries_enabled if and only if all four categories
\* are disabled; equivalently it is waiting_for_answer or show_result if and
\* only if at least one category is enabled.
C25_NoEntriesIffAllDisabled ==
    /\ current_game_state = "no_entries_enabled" <=> ~SomeEnabled
    /\ current_game_state \in {"waiting_for_answer", "show_result"} <=> SomeEnabled

\* C25 witness: every category has been toggled off while the loop runs.
C25_Witness ==
    /\ run_status = "running"
    /\ \A c \in Categories : ~toggle_states[c]
    /\ current_game_state = "no_entries_enabled"

(***************************************************************************)
(* ui::widgets::Percentage (ui/widgets.cpp:46-96): the two counters of the *)
(* score widget, both std::size_t, and the member functions that write     *)
(* them.                                                                   *)
(***************************************************************************)
\* The constructor (lines 46-60): both counters start at 0.
Percentage == [correct_answers_ |-> 0, total_answers_ |-> 0]

\* Lines 62-67.
add_correct_answer(w) ==
    [w EXCEPT !.correct_answers_ = @ + 1, !.total_answers_ = @ + 1]

\* Mutant: an incorrect answer is counted as a correct one only.
add_incorrect_answer_counts_correct(w) == [w EXCEPT !.correct_answers_ = @ + 1]

\* Lines 69-73.
add_incorrect_answer(w) == [w EXCEPT !.total_answers_ = @ + 1]

\* Lines 75-80.
reset(w) == [w EXCEPT !.correct_answers_ = 0, !.total_answers_ = 0]

\* The widgets that n or fewer calls of the three member functions, in any
\* order, make of a new widget.
RECURSIVE PercentageAfter(_)
PercentageAfter(n) ==
    IF n = 0 THEN {Percentage}
    ELSE LET W == PercentageAfter(n - 1)
         IN  W \cup {add_correct_answer(w) : w \in W}
               \cup {add_incorrect_answer(w) : w \in W}
               \cup {reset(w) : w \in W}

PercentageStates == PercentageAfter(MaxCalls)

\* C26: correct_answers never exceeds total_questions in the event loop, and
\* correct_answers_ never exceeds total_answers_ in a Percentage widget after
\* any sequence of add_correct_answer, add_incorrect_answer and reset.
C26_CorrectAtMostTotal ==
    /\ correct_answers <= total_questions
    /\ \A w \in PercentageStates : w.correct_answers_ <= w.total_answers_

\* C26 witness: one correct and one incorrect answer have been counted by
\* the loop, and a widget has counted the same after a reset.
C26_Witness ==
    /\ total_questions = 2
    /\ correct_answers = 1
    /\ reset(add_correct_answer(Percentage)) = Percentage
    /\ [correct_answers_ |-> 1, total_answers_ |-> 2] \in PercentageAfter(MaxCalls - 2)
    /\ [correct_answers_ |-> 3, total_answers_ |-> MaxCalls] \in PercentageStates

\* C27 as stated: while a result is shown a category is enabled, and the
\* iteration of the loop on any mouse button release or key press ends in
\* waiting_for_answer.
C27_AlwaysWaiting ==
    (current_game_state = "show_result" /\ run_status = "running")
    => /\ SomeEnabled
       /\ \A event \in ReleaseEvents \cup KeyEvents : \A s \in Results(event) :
              s.current_game_state = "waiting_for_answer"

\* The states in which the state dispatch (line 366) finds the loop after
\* the toggle handler has seen the event.
AfterToggles(event) ==
    {HandleToggles(State, event, q1) :
        q1 \in IF TogglesCategory(event)
               THEN Samples[AsCategoryEnabled(
                        toggle_and_reset(State, event).toggle_states)]
               ELSE NoSample}

\* C27: while a result is shown a category is enabled; any key press and any
\* mouse button release other than a left click on a toggle button ends in
\* waiting_for_answer; and whenever the show_result handler builds a question
\* (on whatever event), get_random_enabled_entry returns an entry, so the
\* branch of lines 474-488 is not taken.
C27_AcknowledgeFindsEntry ==
    /\ []((current_game_state = "show_result" /\ run_status = "running")
          => /\ SomeEnabled
             /\ \A event \in (ReleaseEvents \cup KeyEvents) \ ToggleClicks :
                   \A s \in Results(event) :
                       s.current_game_state = "waiting_for_answer")
    /\ [](run_status = "running"
          => \A event \in AllEvents : \A s1 \in AfterToggles(event) :
                Acknowledges(s1, event)
                => \A q2 \in Samples[AsCategoryEnabled(s1.toggle_states)] :
                       q2.maybe_entry.has_value)

\* C27 witness: a result is shown while a single category is enabled.
C27_Witness ==
    /\ run_status = "running"
    /\ current_game_state = "show_result"
    /\ toggle_states = Only("DoubleConsonant")

\* C28: one event makes at most one transition.  An answer selection in
\* waiting_for_answer is recorded and ends in show_result on the same
\* question: it does not also proceed to the next question.  A left click on
\* a toggle button, in any state, builds one question (or finds no entry) in
\* the toggle handler; the state handler that sees the same event afterwards
\* changes nothing, and no answer is recorded.
C28_OneTransition ==
    /\ (current_game_state = "waiting_for_answer" /\ run_status = "running")
       => \A event \in AnswerSelections : \A s \in Results(event) :
             /\ s.current_game_state = "show_result"
             /\ s.total_questions = total_questions + 1
             /\ s.correct_entry = correct_entry
             /\ s.options = options
             /\ s.question_text = question_text
             /\ s.answer_texts = answer_texts
    /\ run_status = "running"
       => \A event \in ToggleClicks : \A s1 \in AfterToggles(event) :
             /\ s1.current_game_state \in {"waiting_for_answer", "no_entries_enabled"}
             /\ s1.total_questions = 0
             /\ s1.correct_answers = 0
             /\ ~Acknowledges(s1, event)
             /\ \A q2 \in NoSample : Close(Dispatch(s1, event, q2), event) = s1

\* C28 witness: a second answer has been recorded and its result is shown,
\* with a single category enabled: a click on its toggle button finds no
\* entry.
C28_Witness ==
    /\ run_status = "running"
    /\ current_game_state = "show_result"
    /\ total_questions = 2
    /\ \E event \in ToggleClicks :
          \A s \in Results(event) : s.current_game_state = "no_entries_enabled"

\* The iteration on the event runs a block that builds a question: lines
\* 299-343 in the toggle handler, or 473-516 in the show_result handler.
BuildsQuestion(event) == TogglesCategory(event) \/ Acknowledges(State, event)

\* C29: a question is scored at most once.  total_questions increases only
\* by 1 and only on an iteration that starts in waiting_for_answer, builds no
\* question and ends in show_result; in show_result and no_entries_enabled
\* no event increases it; and show_result is left only by an iteration that
\* builds a new question.  Hence total_questions increases at most once
\* between two consecutive generations.
C29_ScoredOnce ==
    [](run_status = "running"
       => \A event \in AllEvents : \A s \in Results(event) :
             /\ s.total_questions > total_questions
                => /\ current_game_state = "waiting_for_answer"
                   /\ s.current_game_state = "show_result"
                   /\ s.total_questions = total_questions + 1
                   /\ ~BuildsQuestion(event)
             /\ current_game_state # "waiting_for_answer"
                => s.total_questions <= total_questions
             /\ (current_game_state = "show_result" /\ ~BuildsQuestion(event))
                => s.current_game_state = "show_result")

\* C29 witness: two questions have been scored, one of them correctly, and
\* the third question is waiting for its answer.
C29_Witness ==
    /\ run_status = "running"
    /\ current_game_state = "waiting_for_answer"
    /\ total_questions = 2
    /\ correct_answers = 1
    /\ WellFormedQuestion

\* No two places of the table hold the same latin.
PairwiseDistinctLatin ==
    \A i, j \in 1..Len(entries_) :
        i # j => entries_[i].latin # entries_[j].latin

\* The text shown for the correct entry on the side of the labels.
LabelOfCorrect ==
    to_sfml_string(IF is_hangul THEN correct_entry.latin ELSE correct_entry.hangul)

\* C30: no two entries of the vocabulary have the same latin; so for every
\* question on display, with the prompt on either side, the four labels are
\* pairwise distinct and exactly one of them, the one at correct_index, is
\* the label of the prompt's entry.
C30_DistinctLabels ==
    /\ PairwiseDistinctLatin
    /\ QuestionShown
       => /\ \A i, j \in 0..3 : i # j => answer_texts[i] # answer_texts[j]
          /\ {i \in 0..3 : answer_texts[i] = LabelOfCorrect} = {correct_index}

\* C30 witness: the second question has a hangul prompt, and its four latin
\* labels are four different texts, the one at correct_index being the latin
\* of the prompt's entry.
C30_Witness ==
    /\ current_game_state = "waiting_for_answer"
    /\ total_questions = 1
    /\ is_hangul
    /\ Cardinality({answer_texts[i] : i \in 0..3}) = 4
    /\ answer_texts[correct_index] = to_sfml_string(correct_entry.latin)

====
